---- MODULE Spec2Model ----
(***************************************************************************)
(* Model of the news pipeline worker, scripts/run_news_cycle.py:           *)
(* generate_news() with its helpers (search_tavily, filter_by_url_history, *)
(* load_history_urls, save_to_history, call_cerebras,                      *)
(* parse_article_response, log_health) and the __main__ entry point, plus  *)
(* the history purge of the daily cleanup job.                             *)
(*                                                                         *)
(* External services (Tavily, Cerebras, Cloudinary, Firestore) are the     *)
(* environment: every call to one of them is a step whose outcome is drawn *)
(* from a small set.  Texts are represented by what the code reads of them *)
(* (word count, emptiness, which response they came from); URLs by the     *)
(* components urlparse splits them into.                                   *)
(***************************************************************************)
EXTENDS Integers, Sequences, FiniteSets, TLC

VARIABLES
    \* ---- persistent stores (Firestore) and the clock
    news,            \* collection "news": set of Article Records
    history,         \* collection "news_history": sequence of History Entries
    health,          \* document system/cron_health: its status field
    now,             \* wall clock, in days
    \* ---- the process
    env,             \* os.environ of the run
    pc,              \* position of the run inside generate_news / __main__
    exit_code,       \* process exit status ("none" while running)
    fatal,           \* the exception that aborted generate_news ("" if none)
    runs,            \* number of runs started so far
    \* ---- locals of generate_news: search
    known_urls, tier, keys, i, requests, searches, search_result,
    scraped_data, total_filtered, used_query, source_urls,
    \* ---- locals of generate_news: article generation
    model_idx, article_text, ai_category, used_model, word_count, calls,
    \* ---- locals of generate_news: image prompt, title, category, image, save
    image_prompt, title, category, article_id, image_url,
    category_args,   \* the strings step 8 hands to detect_category
    img_completion,  \* step 6: what the backend answers to the image-prompt request
    title_completion, \* step 7: the headline completion and the first sentence read
    news_writes, history_writes,
    \* ---- locals of the image cascade (gemini_image_gen.py) and of the uploads
    g4f_client,      \* outcome of importing and constructing the g4f client
    provider,        \* index in PROVIDERS of the provider being tried
    attempt,         \* number of the attempt at that provider
    img_attempts,    \* log: one entry per attempt at a provider
    img_bytes,       \* length of the bytes the cascade returned (0: None)
    uploads,         \* log: one entry per upload to the object store
    \* ---- the cleanup job (scripts/cleanup_news.py), a process of its own
    cl_pc,           \* position of the job inside cleanup()
    all_news,        \* its snapshot of the collection, oldest first
    to_delete,       \* the documents selected for deletion
    old_history,     \* the history documents selected by the purge query
    batch,           \* the write batch being filled
    count,           \* the loop counter
    batches,         \* log: the batches committed, in order
    cl_log,          \* log: the failures the cleanup job printed
    \* ---- the feed pipeline (scripts/generate_news.py), a process of its own
    f_pc,            \* position of the process inside main()
    ai_entries,      \* fetch_all_news: the entries of the AI feeds
    tech_entries,    \* fetch_all_news: the entries of the tech feeds
    existing_titles, \* process_news_entries: titles of the stored records
    new_items,       \* the items process_news_entries returned
    item_idx,        \* position of the save loop in new_items
    saved,           \* number of items saved
    \* ---- a second run of generate_news that overlaps the first
    other            \* its position and the locals it publishes from

storeVars  == <<news, history, health, now>>
procVars   == <<env, pc, exit_code, fatal, runs>>
searchVars == <<known_urls, tier, keys, i, requests, searches, search_result,
                scraped_data, total_filtered, used_query, source_urls>>
genVars    == <<model_idx, article_text, ai_category, used_model, word_count, calls>>
lateVars   == <<image_prompt, title, category, article_id, image_url, category_args,
                img_completion, title_completion>>
writeVars  == <<news_writes, history_writes>>
imgVars    == <<g4f_client, provider, attempt, img_attempts, img_bytes, uploads>>
cleanVars  == <<cl_pc, all_news, to_delete, old_history, batch, count, batches, cl_log>>
feedVars   == <<f_pc, ai_entries, tech_entries, existing_titles, new_items, item_idx, saved>>
auxVars    == <<imgVars, cleanVars, feedVars, other>>
vars == <<storeVars, procVars, searchVars, genVars, lateVars, writeVars, auxVars>>

Range(s) == {s[k] : k \in 1..Len(s)}

(***************************************************************************)
(* Bounds of the model.                                                    *)
(***************************************************************************)
MaxResults == 2      \* longest result list one Tavily response carries
MaxRuns    == 2      \* sequential runs explored by SpecRuns
MaxDay     == 12     \* last day the clock reaches

(***************************************************************************)
(* Program constants.                                                      *)
(***************************************************************************)
HISTORY_TTL_DAYS  == 10
MIN_TOTAL_TEXT    == 50
RETRY_BELOW_WORDS == 80
PROMPT_MIN_WORDS  == 100     \* "Word Count: strictly between 100 to 150 words."
WORD_CEILING      == 280     \* generate_ai_summary: if len(words) > 280
MODELS            == <<"gpt-oss-120b", "llama3.1-8b">>
TAVILY_KEY_NAMES  == <<"TAVILY_API_KEY", "TAVILY_API_KEY_2">>

(***************************************************************************)
(* URLs.  A URL string is represented by the parts urlparse reads off it:  *)
(*   scheme://host base [;p] [/] [?utm_source=n]                           *)
(* semi: the last path segment carries a ";p" parameter; slash: the path   *)
(* ends in "/"; track: the query holds only a tracking parameter.          *)
(* The empty string is the record with every part empty.                   *)
(***************************************************************************)
EmptyUrl ==
    [scheme |-> "", host |-> "", base |-> "", semi |-> FALSE, slash |-> FALSE, track |-> FALSE]
UrlPlain ==       \* https://a.com/x
    [scheme |-> "https", host |-> "a.com", base |-> "/x", semi |-> FALSE, slash |-> FALSE, track |-> FALSE]
UrlVariant ==     \* http://A.com/x/?utm_source=n
    [scheme |-> "http", host |-> "A.com", base |-> "/x", semi |-> FALSE, slash |-> TRUE, track |-> TRUE]
UrlParams ==      \* https://b.com/y;p/
    [scheme |-> "https", host |-> "b.com", base |-> "/y", semi |-> TRUE, slash |-> TRUE, track |-> FALSE]
Urls == {UrlPlain, UrlVariant, UrlParams, EmptyUrl}

UrlParamsBare ==  \* https://b.com/y;p
    [scheme |-> "https", host |-> "b.com", base |-> "/y", semi |-> TRUE, slash |-> FALSE, track |-> FALSE]
UrlMalformed ==   \* http://[Bad/x/   (urlparse: ValueError, Invalid IPv6 URL)
    [scheme |-> "http", host |-> "[Bad", base |-> "/x", semi |-> FALSE, slash |-> TRUE, track |-> FALSE]
NullUrl ==        \* None: the JSON value null where a URL string is expected
    [scheme |-> "<null>", host |-> "", base |-> "", semi |-> FALSE, slash |-> FALSE, track |-> FALSE]

HostLower(h) == IF h = "A.com" THEN "a.com" ELSE IF h = "[Bad" THEN "[bad" ELSE h

\* urlparse(url) raises ValueError
UrlParseRaises(url) == url.host = "[Bad"

\* normalize_url raises: on a value that is not a string the try block fails
\* and url.lower() in the except branch raises AttributeError.
NormalizeRaises(url) == url = NullUrl

\* except Exception: return url.lower().rstrip("/")  -- the slash is trimmed
\* only where it ends the string, i.e. when no query follows the path
LowerTrimmed(url) ==
    [url EXCEPT !.host = HostLower(url.host),
                !.slash = IF url.track THEN url.slash ELSE FALSE]

\* urlparse(url): hostname is lower-cased; a ";p" on the last segment is split
\* off into params only when nothing follows it (no trailing slash).
UrlParse(url) ==
    [hostname |-> HostLower(url.host),
     path     |-> [base |-> url.base, semi |-> url.semi /\ url.slash, slash |-> url.slash],
     params   |-> url.semi /\ ~url.slash,
     tracking |-> url.track]

\* normalize_url: https scheme, lower-cased host, path without trailing slash,
\* tracking parameters, path params and fragment dropped.
NormalizeUrl(url) ==
    IF UrlParseRaises(url) THEN LowerTrimmed(url)
    ELSE LET parsed   == UrlParse(url)
             pathname == [parsed.path EXCEPT !.slash = FALSE]
         IN  [scheme |-> "https", host |-> parsed.hostname, base |-> pathname.base,
              semi |-> pathname.semi, slash |-> FALSE, track |-> FALSE]

(***************************************************************************)
(* Search results.  title, content/description are lengths in characters.  *)
(***************************************************************************)
TavilyItems == [title : {10}, content : {13, 14}, url : Urls]

RECURSIVE SeqsUpTo(_, _)
SeqsUpTo(S, n) ==
    IF n = 0 THEN {<<>>}
    ELSE LET shorter == SeqsUpTo(S, n - 1)
         IN  shorter \cup {Append(s, x) : s \in {t \in shorter : Len(t) = n - 1}, x \in S}

\* the non-empty "results" arrays a Tavily response may carry
ResultLists == SeqsUpTo(TavilyItems, MaxResults) \ {<<>>}

\* search_tavily's mapping of the response items
MapResults(results) ==
    [k \in 1..Len(results) |->
        [title |-> results[k].title, description |-> results[k].content, url |-> results[k].url]]

\* keys = [k for k in keys if k]
ConfiguredKeys(e) == SelectSeq(TAVILY_KEY_NAMES, LAMBDA k : e[k])

\* load_history_urls
LoadHistoryUrls(hist) ==
    {NormalizeUrl(u) : u \in UNION {Range(e.sourceUrls) : e \in Range(hist)}}

\* filter variants: comparing the raw URL; reporting the number kept
FilterByRawUrl(results, known) ==
    LET fresh == SelectSeq(results, LAMBDA r : r.url \notin known)
    IN  <<fresh, Len(results) - Len(fresh)>>
FilterReportsKept(results, known) ==
    LET fresh == SelectSeq(results, LAMBDA r : NormalizeUrl(r.url) \notin known)
    IN  <<fresh, Len(fresh)>>

\* filter_by_url_history: <<fresh, filtered>>
FilterByUrlHistory(results, known) ==
    LET fresh == SelectSeq(results, LAMBDA r : NormalizeUrl(r.url) \notin known)
    IN  <<fresh, Len(results) - Len(fresh)>>

\* len(f"{title} {description}") of one result
ResultTextLen(r) == r.title + 1 + r.description

RECURSIVE TotalText(_)
TotalText(data) ==
    IF data = <<>> THEN 0 ELSE ResultTextLen(Head(data)) + TotalText(Tail(data))

\* escalation variant: total_text <= 50
PrimaryWeakInclusive(data) == data = <<>> \/ TotalText(data) <= MIN_TOTAL_TEXT

\* the escalation test of generate_news: not scraped_data or total_text < 50
PrimaryWeak(data) == data = <<>> \/ TotalText(data) < MIN_TOTAL_TEXT

\* source_urls = [r.get("url", "") for r in scraped_data if r.get("url")]
SourceUrls(data) ==
    LET withUrl == SelectSeq(data, LAMBDA r : r.url \notin {EmptyUrl, NullUrl})
    IN  [k \in 1..Len(withUrl) |-> withUrl[k].url]

(***************************************************************************)
(* Article generation.  A text is what the code reads of a string: where   *)
(* it came from (the articleText field, or the raw response), its word     *)
(* count, and which completion of the run produced it (1 = first attempt,  *)
(* 2 = corrective retry).  The empty string is NoText.                     *)
(***************************************************************************)
NoText == [src |-> "none", wc |-> 0, call |-> 0]
Text(src, wc, callno) ==
    IF wc = 0 THEN NoText ELSE [src |-> src, wc |-> wc, call |-> callno]

VALID_CATEGORIES == {"ai-tech", "disability", "health", "world", "general"}
Absent == "<absent>"

\* parsed.get("category", "").strip().lower()
StripLower(c) == IF c = " Health " THEN "health" ELSE c

\* One completion of the Cerebras API.  kind "error": the client raises.
\* Otherwise the message content: raw_wc words of raw text (0 = empty content),
\* json: json.loads accepts it; typed: the parsed value supports the key
\* test and its articleText and category values are strings (FALSE for a
\* JSON number, or an articleText of null); has_article: the value has the
\* key articleText, whose stripped value has article_wc words; category: the
\* value of the key category, or Absent.
Completion(kind, json, typed, has_article, article_wc, raw_wc, cat) ==
    [kind |-> kind, json |-> json, typed |-> typed, has_article |-> has_article,
     article_wc |-> article_wc, raw_wc |-> raw_wc, category |-> cat]

ClientError     == Completion("error", FALSE, FALSE, FALSE, 0, 0, Absent)
EmptyContent    == Completion("content", FALSE, FALSE, FALSE, 0, 0, Absent)
Article(wc, c)  == Completion("content", TRUE, TRUE, TRUE, wc, wc + 4, c)
NoArticleKey(w) == Completion("content", TRUE, TRUE, FALSE, 0, w, Absent)
NotJson(w)      == Completion("content", FALSE, FALSE, FALSE, 0, w, Absent)
BadTypes(w)     == Completion("content", TRUE, FALSE, TRUE, 0, w, Absent)

\* parse_article_response: (article_text, category).  Only JSONDecodeError is
\* caught: a TypeError or AttributeError on an ill-typed value propagates.
ParseArticleResponse(raw, callno) ==
    IF raw.json /\ ~raw.typed
    THEN [raised |-> TRUE, text |-> NoText, category |-> ""]
    ELSE IF raw.json
    THEN LET article  == IF raw.has_article
                         THEN Text("field", raw.article_wc, callno)
                         ELSE Text("raw", raw.raw_wc, callno)
             cat      == IF raw.category # Absent THEN StripLower(raw.category) ELSE ""
         IN  [raised |-> FALSE, text |-> article,
              category |-> IF cat \in VALID_CATEGORIES THEN cat ELSE ""]
    ELSE [raised |-> FALSE, text |-> Text("raw", raw.raw_wc, callno), category |-> ""]

\* call_cerebras: raises on a client error or an empty content, else parses
CallCerebras(o, callno) ==
    IF o.kind = "error" \/ o.raw_wc = 0
    THEN [raised |-> TRUE, text |-> NoText, category |-> ""]
    ELSE ParseArticleResponse(o, callno)

\* if word_count < 80: the corrective retry is issued
NeedsRetry(wc) == wc < RETRY_BELOW_WORDS

\* variant: a retry that is not shorter is accepted
RetryAcceptedIfNotShorter(retry_wc, first_wc) == retry_wc >= first_wc

\* if retry_wc > word_count: the retry's text is accepted
RetryAccepted(retry_wc, first_wc) == retry_wc > first_wc

(***************************************************************************)
(* Title, category, image.                                                 *)
(***************************************************************************)
Unbound       == "<unbound>"
FALLBACK_IMAGE_PROMPT == "Editorial photograph of modern technology workspace"
DEFAULT_TITLE == "New Developments in AI and Technology"
PLACEHOLDER_IMAGE_URL == "https://placehold.co/1024x576"

\* the values detect_category can return
DetectCategoryResults ==
    {"disability", "health", "climate", "science", "world", "business",
     "entertainment", "ai-tech"}

(***************************************************************************)
(* detect_category.  Query, title and content are strings; the text that   *)
(* is scored is f"{query} {title} {title} {content[:500]}".lower().        *)
(***************************************************************************)
BODY_PREFIX == 500

LowerChar(c) ==
    CASE c = "A" -> "a" [] c = "B" -> "b" [] c = "C" -> "c" [] c = "D" -> "d"
      [] c = "E" -> "e" [] c = "F" -> "f" [] c = "G" -> "g" [] c = "H" -> "h"
      [] c = "I" -> "i" [] c = "J" -> "j" [] c = "K" -> "k" [] c = "L" -> "l"
      [] c = "M" -> "m" [] c = "N" -> "n" [] c = "O" -> "o" [] c = "P" -> "p"
      [] c = "Q" -> "q" [] c = "R" -> "r" [] c = "S" -> "s" [] c = "T" -> "t"
      [] c = "U" -> "u" [] c = "V" -> "v" [] c = "W" -> "w" [] c = "X" -> "x"
      [] c = "Y" -> "y" [] c = "Z" -> "z" [] OTHER -> c

\* the characters lo..hi of s in lower case
RECURSIVE LowerBetween(_, _, _)
LowerBetween(s, lo, hi) ==
    IF lo > hi THEN ""
    ELSE IF lo = hi THEN LowerChar(SubSeq(s, lo, lo))
    ELSE LET mid == (lo + hi) \div 2
         IN  LowerBetween(s, lo, mid) \o LowerBetween(s, mid + 1, hi)

\* str.lower()
Lower(s) == LowerBetween(s, 1, Len(s))

\* content[:500]
BodyPrefix(content) ==
    IF Len(content) <= BODY_PREFIX THEN content ELSE SubSeq(content, 1, BODY_PREFIX)

\* kw in q
Contains(kw, q) ==
    \E k \in 1..(Len(q) - Len(kw) + 1) : SubSeq(q, k, k + Len(kw) - 1) = kw

CATEGORY_RULES ==
    << [cat |-> "disability", keywords |->
          <<"disability", "disabled", "assistive", "accessible", "accessibility",
            "inclusion", "wheelchair", "blind", "deaf", "autism", "neurodiversity",
            "ada ", "special needs", "impairment", "prosthetic", "screen reader">>],
       [cat |-> "health", keywords |->
          <<"healthcare", "health", "mental health", "wellness", "medical",
            "disease", "vaccine", "hospital", "patient", "therapy", "drug ",
            "pharmaceutical", "clinical trial", "who ", "cdc ">>],
       [cat |-> "climate", keywords |->
          <<"climate", "environment", "clean energy", "sustainability",
            "energy transition", "carbon", "emissions", "renewable", "solar",
            "wind energy", "ev ", "electric vehicle", "green">>],
       [cat |-> "science", keywords |->
          <<"space", "spacex", "nasa", "physics", "astronomy", "mars",
            "biotechnology", "genetics", "science discovery", "research breakthrough",
            "quantum", "crispr", "genome", "telescope", "satellite">>],
       [cat |-> "world", keywords |->
          <<"geopolitical", "international", "trade war", "privacy", "surveillance",
            "world", "regulation", "government", "policy", "law ", "legislation",
            "congress", "parliament", "sanctions", "diplomacy", "united nations",
            "eu ", "european union", "china", "india", "nist", "ftc">>],
       [cat |-> "business", keywords |->
          <<"earnings", "stock", "ipo", "funding", "startup", "unicorn",
            "crypto", "blockchain", "web3", "ceo", "revenue", "acquisition",
            "merger", "market cap", "investor", "venture capital", "valuation">>],
       [cat |-> "entertainment", keywords |->
          <<"social media", "streaming", "gaming", "esports", "entertainment",
            "movie", "music", "tiktok", "youtube", "netflix", "spotify">> ] >>

DEFAULT_CATEGORY == "ai-tech"

\* the arguments of a call detect_category(search_query, title, article_text)
CategoryArgs(query, headline, content) ==
    [query |-> query, title |-> headline, content |-> content]
NoArgs    == CategoryArgs("", "", "")
PlainArgs == CategoryArgs("artificial intelligence news today",
                          "Chip Maker Ships Faster Model", "The model ships next week.")

\* sum(1 for kw in keywords if kw in q)
KeywordScore(keywords, q) ==
    Cardinality({k \in 1..Len(keywords) : Contains(keywords[k], q)})

\* the dict scores, in insertion order: the categories with a score above 0
CategoryScores(q) ==
    LET all == [n \in 1..Len(CATEGORY_RULES) |->
                  [cat |-> CATEGORY_RULES[n].cat,
                   score |-> KeywordScore(CATEGORY_RULES[n].keywords, q)]] @@ <<>>
    IN  SelectSeq(all, LAMBDA e : e.score > 0)

\* max(scores, key=scores.get): the first key, in iteration order, whose
\* value no other key exceeds
RECURSIVE MaxKey(_, _, _)
MaxKey(scores, k, best) ==
    IF k > Len(scores) THEN best
    ELSE MaxKey(scores, k + 1,
                IF scores[k].score > scores[best].score THEN k ELSE best)

\* the text detect_category scores
ScoredText(query, headline, content) ==
    Lower(query \o " " \o headline \o " " \o headline \o " " \o BodyPrefix(content))

DetectCategory(query, headline, content) ==
    LET scores == CategoryScores(ScoredText(query, headline, content))
    IN  IF scores # <<>> THEN scores[MaxKey(scores, 1, 1)].cat ELSE DEFAULT_CATEGORY

\* variant: no default headline when the first sentence is out of range
TitleOfNoDefault(o) ==
    IF o.llm = "ok" /\ o.words >= 4 THEN "llm headline"
    ELSE IF o.first_len > 15 /\ o.first_len < 120 THEN "first sentence"
    ELSE ""

\* Step 7.  o.llm: "error" (the call raises) or "ok" with o.words words left
\* after stripping; o.first_len: length of the article's first sentence.
TitleOf(o) ==
    LET llm_title == IF o.llm = "ok" /\ o.words >= 4 THEN "llm headline" ELSE ""
    IN  IF llm_title # "" THEN llm_title
        ELSE IF o.first_len > 15 /\ o.first_len < 120 THEN "first sentence"
        ELSE DEFAULT_TITLE

\* generate_and_upload_image.  o.g4f: the cascade returned bytes; o.upload:
\* the upload of those bytes returned a URL; o.placeholder: the placeholder
\* was fetched (more than 500 bytes) and its upload returned a URL.
GenerateAndUploadImage(o, id) ==
    IF o.g4f /\ o.upload THEN "cloudinary:generated"
    ELSE IF o.placeholder THEN "cloudinary:placeholder"
    ELSE PLACEHOLDER_IMAGE_URL

(***************************************************************************)
(* The run: generate_news, one action per step.                            *)
(***************************************************************************)
Raise(msg) == /\ fatal' = msg
              /\ pc' = "fatal"

NORMALIZE_ERROR == "'NoneType' object has no attribute 'lower'"

\* filter_by_url_history(results, known_urls) raises: normalize_url raises on
\* one of the results
FilterRaises(results) == \E k \in 1..Len(results) : NormalizeRaises(results[k].url)

\* load_history_urls raises: normalize_url raises on a stored element
LoadRaises(hist) ==
    \E e \in Range(hist) : \E u \in Range(e.sourceUrls) : NormalizeRaises(u)

\* random.choice(SEARCH_QUERIES), detect_category and extract_topic only feed
\* log lines and the query text; then the CEREBRAS_API_KEY check.
StartRun ==
    /\ pc = "idle"
    /\ runs' = runs + 1
    /\ IF ~env["CEREBRAS_API_KEY"]
       THEN Raise("CEREBRAS_API_KEY not set")
       ELSE pc' = "load_history" /\ fatal' = fatal
    /\ UNCHANGED <<storeVars, env, exit_code, searchVars, genVars, lateVars, writeVars>>
    /\ UNCHANGED auxVars

\* search_tavily is entered for tier t: the configured keys are collected;
\* with none configured it returns the empty result at once.
EnterSearch(t) ==
    /\ tier' = t
    /\ keys' = ConfiguredKeys(env)
    /\ i' = 1
    /\ requests' = <<>>
    /\ searches' = Append(searches, t)
    /\ search_result' = <<>>
    /\ pc' = IF ConfiguredKeys(env) = <<>> THEN "filter" ELSE "request"

\* load_history_urls (a failed read of the store aborts the run), then the
\* Tier 1 search is called.
LoadHistory(reads) ==
    /\ pc = "load_history"
    /\ \E ok \in reads :
         IF ok /\ ~LoadRaises(history)
         THEN /\ known_urls' = LoadHistoryUrls(history)
              /\ EnterSearch(1)
              /\ fatal' = fatal
         ELSE /\ Raise(IF ok THEN NORMALIZE_ERROR ELSE "history read failed")
              /\ UNCHANGED <<known_urls, tier, keys, i, requests, searches, search_result>>
    /\ UNCHANGED <<storeVars, env, exit_code, runs, scraped_data, total_filtered,
                   used_query, source_urls, genVars, lateVars, writeVars>>
    /\ UNCHANGED auxVars

\* What one request to api.tavily.com can come back with.
TavilyFailure(kind) == [kind |-> kind, results |-> <<>>]
TavilyFailures == {TavilyFailure("timeout"), TavilyFailure("http_error"), TavilyFailure("empty")}
TavilyResponses(lists) == TavilyFailures \cup {[kind |-> "results", results |-> l] : l \in lists}

\* variant: an empty result list returned as the result of the call
RequestEndsCallOnEmpty(o) == o.kind \in {"results", "empty"}

\* if not results: continue   (an exception is caught and the loop goes on)
RequestEndsCall(o) == o.kind = "results" /\ o.results # <<>>

\* One iteration of the key loop of search_tavily.
TavilyRequest(lists) ==
    /\ pc = "request"
    /\ \E o \in TavilyResponses(lists) :
         /\ requests' = Append(requests, [key |-> keys[i], outcome |-> o.kind])
         /\ IF RequestEndsCall(o)
            THEN /\ search_result' = MapResults(o.results)
                 /\ pc' = "filter"
                 /\ i' = i
            ELSE IF i < Len(keys)
            THEN /\ i' = i + 1
                 /\ pc' = "request"
                 /\ search_result' = search_result
            ELSE /\ search_result' = <<>>
                 /\ pc' = "filter"
                 /\ i' = i
    /\ UNCHANGED <<storeVars, env, exit_code, fatal, runs, known_urls, tier, keys,
                   searches, scraped_data, total_filtered, used_query, source_urls,
                   genVars, lateVars, writeVars>>
    /\ UNCHANGED auxVars

\* The search phase is over: source_urls is computed and the model loop starts.
\* The locals of the returned search_tavily call are gone.
ToGeneration(data) ==
    /\ source_urls' = SourceUrls(data)
    /\ pc' = "generate"
    /\ keys' = <<>> /\ i' = 1 /\ requests' = <<>> /\ search_result' = <<>>
    /\ UNCHANGED <<tier, searches>>

\* variant: the fallback tiers re-apply the Tier 1 length floor
HasFreshAndLong(fresh) == fresh # <<>> /\ TotalText(fresh) >= MIN_TOTAL_TEXT

\* if fallback_fresh: / if wider_fresh:
HasFresh(fresh) == fresh # <<>>

\* Tier 1 returned: dedup filter, then the escalation test.
FilterTier1 ==
    /\ pc = "filter" /\ tier = 1
    /\ IF FilterRaises(search_result)
       THEN /\ Raise(NORMALIZE_ERROR)
            /\ UNCHANGED searchVars
       ELSE LET ff == FilterByUrlHistory(search_result, known_urls)
            IN  /\ scraped_data' = ff[1]
                /\ total_filtered' = ff[2]
                /\ used_query' = "search_query"
                /\ IF PrimaryWeak(ff[1])
                   THEN EnterSearch(2) /\ source_urls' = source_urls
                   ELSE ToGeneration(ff[1])
                /\ fatal' = fatal
                /\ known_urls' = known_urls
    /\ UNCHANGED <<storeVars, env, exit_code, runs, genVars, lateVars, writeVars>>
    /\ UNCHANGED auxVars

\* Tier 2 returned.
FilterTier2 ==
    /\ pc = "filter" /\ tier = 2
    /\ IF FilterRaises(search_result)
       THEN /\ Raise(NORMALIZE_ERROR)
            /\ UNCHANGED searchVars
       ELSE LET ff == FilterByUrlHistory(search_result, known_urls)
            IN  /\ IF HasFresh(ff[1])
                   THEN /\ scraped_data' = ff[1]
                        /\ total_filtered' = total_filtered + ff[2]
                        /\ used_query' = "fallback_query"
                        /\ ToGeneration(ff[1])
                   ELSE /\ EnterSearch(3)
                        /\ UNCHANGED <<scraped_data, total_filtered, used_query, source_urls>>
                /\ fatal' = fatal
                /\ known_urls' = known_urls
    /\ UNCHANGED <<storeVars, env, exit_code, runs, genVars, lateVars, writeVars>>
    /\ UNCHANGED auxVars

\* Tier 3 returned.
FilterTier3 ==
    /\ pc = "filter" /\ tier = 3
    /\ LET ff == FilterByUrlHistory(search_result, known_urls)
       IN  IF FilterRaises(search_result)
           THEN /\ Raise(NORMALIZE_ERROR)
                /\ UNCHANGED <<searchVars>>
           ELSE IF HasFresh(ff[1])
           THEN /\ scraped_data' = ff[1]
                /\ total_filtered' = total_filtered + ff[2]
                /\ used_query' = "latest technology AI news (7d)"
                /\ ToGeneration(ff[1])
                /\ fatal' = fatal
           ELSE /\ Raise("No fresh search results found after all fallbacks")
                /\ UNCHANGED <<searchVars>>
    /\ UNCHANGED <<storeVars, env, exit_code, runs, known_urls, genVars,
                   lateVars, writeVars>>
    /\ UNCHANGED auxVars

\* variant: a response that is too short counts as a failure of the backend
AfterFirstCallShortIsFailure(raised, wc, idx) ==
    IF raised \/ NeedsRetry(wc)
    THEN IF idx < Len(MODELS)
         THEN [pc |-> "generate", model_idx |-> idx + 1]
         ELSE [pc |-> "check_text", model_idx |-> idx]
    ELSE [pc |-> "check_text", model_idx |-> idx]

\* Where the model loop goes after the first call of a pass: the except branch
\* continues with the next backend (the loop ends after the last one); a
\* response breaks out of the loop, after the corrective retry if it is short.
AfterFirstCall(raised, wc, idx) ==
    IF raised
    THEN IF idx < Len(MODELS)
         THEN [pc |-> "generate", model_idx |-> idx + 1]
         ELSE [pc |-> "check_text", model_idx |-> idx]
    ELSE [pc |-> IF NeedsRetry(wc) THEN "retry" ELSE "check_text", model_idx |-> idx]

\* One pass of "for model_name in MODELS": the first call to the backend.
\* An exception leaves article_text = "" and moves to the next backend; a
\* response ends the loop, after the corrective retry when it is too short.
CallModel(completions) ==
    /\ pc = "generate"
    /\ \E o \in completions :
         LET r == CallCerebras(o, 1)
             m == MODELS[model_idx]
             after == AfterFirstCall(r.raised, r.text.wc, model_idx)
         IN  /\ calls' = Append(calls, [model |-> m, attempt |-> "first",
                                         raised |-> r.raised, text |-> r.text,
                                         emitted |-> o.category])
             /\ pc' = after.pc
             /\ model_idx' = after.model_idx
             /\ IF r.raised
                THEN /\ article_text' = NoText
                     /\ UNCHANGED <<ai_category, used_model, word_count>>
                ELSE /\ article_text' = r.text
                     /\ ai_category' = r.category
                     /\ used_model' = m
                     /\ word_count' = r.text.wc
    /\ UNCHANGED <<storeVars, env, exit_code, fatal, runs, searchVars, lateVars, writeVars>>
    /\ UNCHANGED auxVars

\* variant: the accepted retry's category replaces the first one's even
\* when the retry supplied none
RetryCategoryAlways(retry_cat, first_cat) == retry_cat

\* if retry_cat: ai_category = retry_cat
RetryCategory(retry_cat, first_cat) == IF retry_cat # "" THEN retry_cat ELSE first_cat

\* The corrective retry, to the same backend; then break.
RetryModel(completions) ==
    /\ pc = "retry"
    /\ \E o \in completions :
         LET r == CallCerebras(o, 2)
         IN  /\ calls' = Append(calls, [model |-> MODELS[model_idx], attempt |-> "retry",
                                         raised |-> r.raised, text |-> r.text,
                                         emitted |-> o.category])
             /\ IF ~r.raised /\ RetryAccepted(r.text.wc, word_count)
                THEN /\ article_text' = r.text
                     /\ ai_category' = RetryCategory(r.category, ai_category)
                ELSE UNCHANGED <<article_text, ai_category>>
    /\ pc' = "check_text"
    /\ UNCHANGED <<storeVars, env, exit_code, fatal, runs, searchVars, model_idx,
                   used_model, word_count, lateVars, writeVars>>
    /\ UNCHANGED auxVars

\* variant: the emptiness check is missing
CheckArticleNoRaise ==
    /\ pc = "check_text"
    /\ word_count' = article_text.wc
    /\ pc' = "image_prompt"
    /\ UNCHANGED <<storeVars, env, exit_code, fatal, runs, searchVars, model_idx,
                   article_text, ai_category, used_model, calls, lateVars, writeVars>>
    /\ UNCHANGED auxVars

\* if not article_text: raise RuntimeError("All Cerebras models failed ...")
CheckArticle ==
    /\ pc = "check_text"
    /\ IF article_text = NoText
       THEN Raise("All Cerebras models failed for article generation")
            /\ word_count' = word_count
       ELSE /\ word_count' = article_text.wc
            /\ pc' = "image_prompt"
            /\ fatal' = fatal
    /\ UNCHANGED <<storeVars, env, exit_code, runs, searchVars, model_idx,
                   article_text, ai_category, used_model, calls, lateVars, writeVars>>
    /\ UNCHANGED auxVars

\* Step 6.  The request is built from the local `title`, which is bound only in
\* step 7: while it is unbound, building the request raises and the except
\* branch installs the fixed prompt.
ImagePromptStep(outcomes) ==
    /\ pc = "image_prompt"
    /\ \E o \in outcomes :
         /\ img_completion' = o
         /\ image_prompt' = IF title = Unbound \/ o = "error"
                            THEN FALLBACK_IMAGE_PROMPT ELSE "llm description"
    /\ pc' = "title"
    /\ UNCHANGED <<storeVars, env, exit_code, fatal, runs, searchVars, genVars,
                   title, category, article_id, image_url, category_args,
                   title_completion, writeVars>>
    /\ UNCHANGED auxVars

\* Step 7: headline.
TitleStep(outcomes) ==
    /\ pc = "title"
    /\ \E o \in outcomes : title_completion' = o /\ title' = TitleOf(o)
    /\ pc' = "category"
    /\ UNCHANGED <<storeVars, env, exit_code, fatal, runs, searchVars, genVars,
                   image_prompt, category, article_id, image_url, category_args,
                   img_completion, writeVars>>
    /\ UNCHANGED auxVars

\* Step 8: the AI-picked category, else the keyword classifier.
\* texts: what search_query, title and article_text read as strings (the
\* default title is the string the code assigns).
CategoryStep(texts) ==
    /\ pc = "category"
    /\ IF ai_category # ""
       THEN /\ category' = ai_category
            /\ category_args' = category_args
       ELSE \E x \in texts :
              LET args == [x EXCEPT !.title = IF title = DEFAULT_TITLE
                                             THEN DEFAULT_TITLE ELSE x.title]
              IN  /\ category_args' = args
                  /\ category' = DetectCategory(args.query, args.title, args.content)
    /\ pc' = "image"
    /\ UNCHANGED <<storeVars, env, exit_code, fatal, runs, searchVars, genVars,
                   image_prompt, title, article_id, image_url, img_completion,
                   title_completion, writeVars>>
    /\ UNCHANGED auxVars

\* Step 9: article_id = uuid4() (one fresh id per run), image generated and uploaded.
ImageStep(outcomes) ==
    /\ pc = "image"
    /\ article_id' = runs
    /\ \E o \in outcomes : image_url' = GenerateAndUploadImage(o, runs)
    /\ pc' = "save"
    /\ UNCHANGED <<storeVars, env, exit_code, fatal, runs, searchVars, genVars,
                   image_prompt, title, category, category_args, img_completion,
                   title_completion, writeVars>>
    /\ UNCHANGED auxVars

(***************************************************************************)
(* Step 9 in detail: generate_and_upload_image, _call_g4f_image,           *)
(* gemini_image_gen.generate_image_gemini and the two uploads.  Image      *)
(* bytes are represented by their length; 0 stands for None.               *)
(***************************************************************************)
PROVIDERS              == <<"flux-dev", "flux", "pollinations">>
G4F_ATTEMPTS           == 3      \* for attempt in range(1, 4)
POLLINATIONS_ATTEMPTS  == 2      \* for attempt in range(1, 3)
G4F_MIN_BYTES          == 1000   \* if len(image_bytes) > 1000
POLLINATIONS_MIN_BYTES == 5000   \* if len(image_bytes) > 5000
PLACEHOLDER_MIN_BYTES  == 500    \* len(placeholder_bytes) > 500

\* variant: the last provider is tried as often as the others
ProviderAttemptsEqual(p) == G4F_ATTEMPTS

ProviderAttempts(p) == IF PROVIDERS[p] = "pollinations" THEN POLLINATIONS_ATTEMPTS ELSE G4F_ATTEMPTS
ProviderMinBytes(p) == IF PROVIDERS[p] = "pollinations" THEN POLLINATIONS_MIN_BYTES ELSE G4F_MIN_BYTES
ProviderPc(p) == IF PROVIDERS[p] = "pollinations" THEN "img_pollinations" ELSE "img_g4f"

\* variant: a response of exactly the threshold length is accepted
AcceptsAtFloor(size, floor) == size >= floor

\* len(image_bytes) > floor
Accepts(size, floor) == size > floor

\* One HTTP GET: kind "error" (the request raises), "status" (a status other
\* than 200) or "ok" (status 200 with a body of `size` bytes).
Download(kind, size) == [kind |-> kind, size |-> size]

\* First download of the list that has status 200 and an accepted length.
FirstAccepted(dls, floor) ==
    LET good == {k \in 1..Len(dls) : dls[k].kind = "ok" /\ Accepts(dls[k].size, floor)}
    IN  IF good = {} THEN 0
        ELSE dls[CHOOSE k \in good : \A m \in good : k <= m].size

\* longest 200-body an attempt received (0 if none)
Received(dls) ==
    LET sizes == {dls[k].size : k \in {m \in 1..Len(dls) : dls[m].kind = "ok"}}
    IN  IF sizes = {} THEN 0 ELSE CHOOSE x \in sizes : \A y \in sizes : y <= x

\* _poll_g4f_image.  o.response: "error" (images.generate raises), "empty"
\* (no data), "no_url", or "url"; o.downloads: what the up to three download
\* attempts of the URL would give.
G4fPoll(response, downloads) == [response |-> response, downloads |-> downloads]
PollG4fImage(o) ==
    IF o.response # "url" THEN 0 ELSE FirstAccepted(o.downloads, G4F_MIN_BYTES)

\* One pass of the loop body of _try_pollinations.
PollinationsGet(o) == FirstAccepted(<<o>>, POLLINATIONS_MIN_BYTES)

\* variant: a provider is left after its first failed attempt
AfterFailedAttemptNoRetry(p, a) ==
    IF p < Len(PROVIDERS)
    THEN [pc |-> ProviderPc(p + 1), provider |-> p + 1, attempt |-> 1]
    ELSE [pc |-> "img_placeholder", provider |-> p, attempt |-> a]

\* Where the cascade goes after attempt a at provider p returned nothing.
AfterFailedAttempt(p, a) ==
    IF a < ProviderAttempts(p)
    THEN [pc |-> ProviderPc(p), provider |-> p, attempt |-> a + 1]
    ELSE IF p < Len(PROVIDERS)
    THEN [pc |-> ProviderPc(p + 1), provider |-> p + 1, attempt |-> 1]
    ELSE [pc |-> "img_placeholder", provider |-> p, attempt |-> a]

ImageRest == <<storeVars, env, exit_code, fatal, runs, searchVars, genVars,
               image_prompt, title, category, category_args, img_completion,
               title_completion, writeVars, cleanVars,
               feedVars, other>>

\* article_id = uuid4(); generate_and_upload_image -> _call_g4f_image ->
\* generate_image_gemini -> _try_g4f, up to the construction of the client.
\* c = "ok": the client is built; "not_installed": importing g4f raises
\* ImportError and _try_g4f returns None; "error": the import or G4FClient()
\* raises another exception, which only _call_g4f_image catches;
\* "module_missing": gemini_image_gen itself cannot be imported.
ImageStart(clients) ==
    /\ pc = "image"
    /\ article_id' = runs
    /\ \E c \in clients :
         /\ g4f_client' = c
         /\ pc' = CASE c = "ok" -> ProviderPc(1)
                    [] c = "not_installed" -> "img_pollinations"
                    [] OTHER -> "img_placeholder"
         /\ provider' = IF c = "not_installed" THEN 3 ELSE 1
    /\ attempt' = 1 /\ img_attempts' = <<>> /\ img_bytes' = 0 /\ uploads' = <<>>
    /\ UNCHANGED <<ImageRest, image_url>>

\* One attempt at a provider ended with `bytes` (0: nothing).
AttemptDone(received, bytes) ==
    /\ img_attempts' = Append(img_attempts,
           [provider |-> PROVIDERS[provider], attempt |-> attempt,
            received |-> received, bytes |-> bytes])
    /\ IF bytes > 0
       THEN /\ img_bytes' = bytes
            /\ pc' = "img_upload"
            /\ UNCHANGED <<provider, attempt>>
       ELSE LET next == AfterFailedAttempt(provider, attempt)
            IN  /\ pc' = next.pc /\ provider' = next.provider /\ attempt' = next.attempt
                /\ img_bytes' = 0

\* _try_g4f: one pass of the inner loop, result = _poll_g4f_image(...)
G4fAttempt(outcomes) ==
    /\ pc = "img_g4f"
    /\ \E o \in outcomes :
         AttemptDone(IF o.response = "url" THEN Received(o.downloads) ELSE 0, PollG4fImage(o))
    /\ UNCHANGED <<ImageRest, article_id, image_url, g4f_client, uploads>>

\* _try_pollinations: one pass of the loop
PollinationsAttempt(outcomes) ==
    /\ pc = "img_pollinations"
    /\ \E o \in outcomes : AttemptDone(Received(<<o>>), PollinationsGet(o))
    /\ UNCHANGED <<ImageRest, article_id, image_url, g4f_client, uploads>>

\* variant: a failed upload leaves the record without a reference
AfterUploadNoFallback(outcome) ==
    IF outcome = "url" THEN [pc |-> "save", image_url |-> "cloudinary:generated"]
    ELSE [pc |-> "save", image_url |-> ""]

\* _upload_bytes_to_cloudinary returned a URL, or None (no secure_url, or
\* the upload raised): the placeholder path follows.
AfterUpload(outcome) ==
    IF outcome = "url" THEN [pc |-> "save", image_url |-> "cloudinary:generated"]
    ELSE [pc |-> "img_placeholder", image_url |-> image_url]

UploadOutcomes == {"url", "no_url", "raise"}

\* if g4f_bytes: result = _upload_bytes_to_cloudinary(g4f_bytes, article_id)
UploadGenerated(outcomes) ==
    /\ pc = "img_upload"
    /\ \E o \in outcomes :
         /\ uploads' = Append(uploads, [public_id |-> article_id, kind |-> "generated",
                                        bytes |-> img_bytes, outcome |-> o])
         /\ pc' = AfterUpload(o).pc
         /\ image_url' = AfterUpload(o).image_url
    /\ UNCHANGED <<ImageRest, article_id, g4f_client, provider, attempt, img_attempts,
                   img_bytes>>

\* _upload_placeholder_to_cloudinary: fetch the placeholder (f.kind "error":
\* the GET raises; otherwise a body of f.size bytes, whatever the status),
\* upload it if it is long enough, else return the static URL.
UploadPlaceholder(fetches, outcomes) ==
    /\ pc = "img_placeholder"
    /\ \E f \in fetches, o \in outcomes :
         IF f.kind # "error" /\ Accepts(f.size, PLACEHOLDER_MIN_BYTES)
         THEN /\ uploads' = Append(uploads, [public_id |-> article_id, kind |-> "placeholder",
                                             bytes |-> f.size, outcome |-> o])
              /\ image_url' = IF o = "url" THEN "cloudinary:placeholder"
                              ELSE PLACEHOLDER_IMAGE_URL
         ELSE /\ uploads' = uploads
              /\ image_url' = PLACEHOLDER_IMAGE_URL
    /\ pc' = "save"
    /\ UNCHANGED <<ImageRest, article_id, g4f_client, provider, attempt, img_attempts,
                   img_bytes>>

NewsItem ==
    [id |-> article_id, title |-> title, summary |-> article_text,
     image_url |-> image_url, category |-> category, date |-> now]

\* Step 10: db.collection("news").document(article_id).set(news_item)
SaveNews(writes) ==
    /\ pc = "save"
    /\ \E ok \in writes :
         IF ok
         THEN /\ news' = news \cup {NewsItem}
              /\ news_writes' = news_writes + 1
              /\ pc' = "save_history"
              /\ fatal' = fatal
         ELSE /\ Raise("news write failed")
              /\ UNCHANGED <<news, news_writes>>
    /\ UNCHANGED <<history, health, now, env, exit_code, runs, searchVars, genVars,
                   lateVars, history_writes>>
    /\ UNCHANGED auxVars

HistoryEntry(t, content, urls, at, origin) ==
    [title |-> t, content |-> content, sourceUrls |-> urls, createdAt |-> at,
     archivedFrom |-> origin]

\* normalized = [normalize_url(u) for u in source_urls]
NormalizedList(urls) == [k \in 1..Len(urls) |-> NormalizeUrl(urls[k])]

\* variant: a failed insert propagates to the caller
SaveToHistoryRaises(writes) ==
    /\ pc = "save_history"
    /\ \E ok \in writes :
         IF ok
         THEN /\ history' = Append(history,
                    HistoryEntry(title, article_text, NormalizedList(source_urls), now, ""))
              /\ history_writes' = history_writes + 1
              /\ pc' = "log_health"
              /\ fatal' = fatal
         ELSE /\ Raise("history write failed")
              /\ UNCHANGED <<history, history_writes>>
    /\ UNCHANGED <<news, health, now, env, exit_code, runs, searchVars, genVars,
                   lateVars, news_writes>>
    /\ UNCHANGED auxVars

\* save_to_history: a failed insert is swallowed.
SaveToHistory(writes) ==
    /\ pc = "save_history"
    /\ \E ok \in writes :
         IF ok
         THEN /\ history' = Append(history,
                    HistoryEntry(title, article_text, NormalizedList(source_urls), now, ""))
              /\ history_writes' = history_writes + 1
         ELSE UNCHANGED <<history, history_writes>>
    /\ pc' = "log_health"
    /\ UNCHANGED <<news, health, now, env, exit_code, fatal, runs, searchVars, genVars,
                   lateVars, news_writes>>
    /\ UNCHANGED auxVars

\* log_health(db, "Success", ...) (a failed write is swallowed), return, exit 0.
LogHealth(writes) ==
    /\ pc = "log_health"
    /\ \E ok \in writes : health' = IF ok THEN "success" ELSE health
    /\ pc' = "exited"
    /\ exit_code' = 0
    /\ UNCHANGED <<news, history, now, env, fatal, runs, searchVars, genVars, lateVars,
                   writeVars>>
    /\ UNCHANGED auxVars

\* variant: the entry point logs the failure and returns normally
MainExceptReturns(writes) ==
    /\ pc = "fatal"
    /\ \E ok \in writes : health' = IF ok THEN "failed" ELSE health
    /\ pc' = "exited"
    /\ exit_code' = 0
    /\ UNCHANGED <<news, history, now, env, fatal, runs, searchVars, genVars, lateVars,
                   writeVars>>
    /\ UNCHANGED auxVars

\* __main__: except Exception: try to log the failure, sys.exit(1).
MainExcept(writes) ==
    /\ pc = "fatal"
    /\ \E ok \in writes : health' = IF ok THEN "failed" ELSE health
    /\ pc' = "exited"
    /\ exit_code' = 1
    /\ UNCHANGED <<news, history, now, env, fatal, runs, searchVars, genVars, lateVars,
                   writeVars>>
    /\ UNCHANGED auxVars

(***************************************************************************)
(* The daily cleanup job (scripts/cleanup_news.py) and the passing of time.*)
(***************************************************************************)
MIN_ARTICLES == 50

Oldest(S) == CHOOSE a \in S : \A b \in S : a.date <= b.date

\* Deletes the n oldest records of S, archiving each to history first.
\* data.get("sourceUrls", []) of a record written by generate_news is [].
RECURSIVE EvictOldest(_, _, _, _)
EvictOldest(S, hist, n, at) ==
    IF n = 0 \/ S = {} THEN [news |-> S, history |-> hist]
    ELSE LET a == Oldest(S)
             archived == IF a.title # ""
                         THEN Append(hist, HistoryEntry(a.title, NoText, <<>>, at, "cleanup"))
                         ELSE hist
         IN  EvictOldest(S \ {a}, archived, n - 1, at)

\* variant: an entry exactly as old as the TTL is selected too
ExpiredAtCutoff(created_at, at) == created_at <= at - HISTORY_TTL_DAYS

\* where("createdAt", "<", cutoff_iso), cutoff = now - timedelta(days=10)
Expired(created_at, at) == created_at < at - HISTORY_TTL_DAYS

\* entries with createdAt < now - HISTORY_TTL_DAYS are deleted
PurgeOlderThan(hist, at) ==
    SelectSeq(hist, LAMBDA e : ~Expired(e.createdAt, at))

\* cleanup(db): eviction, then purge; each part swallows its own failure.
Cleanup(oks) ==
    /\ pc = "exited"
    /\ \E evict_ok \in oks, purge_ok \in oks :
         LET total   == Cardinality(news)
             evicted == IF evict_ok /\ total > MIN_ARTICLES
                        THEN EvictOldest(news, history, total - MIN_ARTICLES, now)
                        ELSE [news |-> news, history |-> history]
         IN  /\ news' = evicted.news
             /\ history' = IF purge_ok THEN PurgeOlderThan(evicted.history, now)
                           ELSE evicted.history
    /\ UNCHANGED <<health, now, procVars, searchVars, genVars, lateVars, writeVars>>
    /\ UNCHANGED auxVars

(***************************************************************************)
(* cleanup() document by document: the query, the archive-and-delete loop  *)
(* with its write batches, and the purge loop.  A write batch only queues  *)
(* deletes; they reach the store when the batch is committed.              *)
(***************************************************************************)
BATCH_LIMIT == 400      \* if count % 400 == 0: batch.commit()

\* order_by("date", ASCENDING): ties are ordered by document id
Before(b, a) == b.date < a.date \/ (b.date = a.date /\ b.id < a.id)

\* variant: the query returns the newest documents first
OrderByDateDescending(S) ==
    LET rank == [a \in S |-> Cardinality({b \in S : Before(a, b)})] @@ <<>>
    IN  [k \in 1..Cardinality(S) |-> CHOOSE a \in S : rank[a] = k - 1]

\* (rank is a function evaluated once: @@ yields an explicit function)
OrderByDate(S) ==
    LET rank == [a \in S |-> Cardinality({b \in S : Before(b, a)})] @@ <<>>
    IN  [k \in 1..Cardinality(S) |-> CHOOSE a \in S : rank[a] = k - 1]

\* data.get("sourceUrls", [])
SourceUrlsOf(data) == IF "sourceUrls" \in DOMAIN data THEN data.sourceUrls ELSE <<>>

\* variant: a batch is committed one delete later
CommitDueLate(c) == c % (BATCH_LIMIT + 1) = 0

\* if count % 400 == 0
CommitDue(c) == c % BATCH_LIMIT = 0

\* if count % 400 != 0 (after the loop)
FlushDue(c) == c % BATCH_LIMIT # 0

\* the sequence h without the positions in I
DropAt(h, I) ==
    LET numbered == [k \in 1..Len(h) |-> <<k, h[k]>>]
        kept     == SelectSeq(numbered, LAMBDA x : x[1] \notin I)
    IN  [k \in 1..Len(kept) |-> kept[k][2]]

CleanupRest == <<health, now, procVars, searchVars, genVars, lateVars, writeVars, imgVars,
                 feedVars, other>>

\* all_news = list(... order_by("date") ...); total <= MIN_ARTICLES: nothing
\* to delete; else to_delete = all_news[:excess].  A failed read is caught by
\* the except of part 1.
CleanupQuery(min_keep, reads) ==
    /\ cl_pc = "idle"
    /\ \E ok \in reads :
         IF ok
         THEN LET sorted == OrderByDate(news)
                  total  == Len(sorted)
              IN  /\ all_news' = sorted
                  /\ IF total <= min_keep
                     THEN cl_pc' = "purge_query" /\ to_delete' = <<>>
                     ELSE cl_pc' = "evict" /\ to_delete' = SubSeq(sorted, 1, total - min_keep)
                  /\ cl_log' = <<>>
         ELSE /\ cl_pc' = "purge_query"
              /\ cl_log' = <<"cleanup_failed">>
              /\ UNCHANGED <<all_news, to_delete>>
    /\ batch' = <<>> /\ count' = 0 /\ batches' = <<>>
    /\ UNCHANGED <<news, history, old_history, CleanupRest>>

\* variant: the archive entry carries the date of the article
ArchiveStampOfArticle(data, at) == data.date

\* "createdAt": datetime.now(timezone.utc).isoformat()
ArchiveStamp(data, at) == at

\* One pass of "for doc_snap in to_delete": archive (a failed add is
\* swallowed), batch.delete, count += 1, commit every 400.  A failed commit
\* leaves the loop through the except of part 1.
EvictOne(fail_at, commits) ==
    /\ cl_pc = "evict" /\ count < Len(to_delete)
    /\ LET data   == to_delete[count + 1]
           urls   == SourceUrlsOf(data)
           queued == Append(batch, data)
       IN  \E archived \in (IF count + 1 \in fail_at THEN BOOLEAN ELSE {TRUE}) :
           \E ok \in (IF CommitDue(count + 1) THEN commits ELSE {TRUE}) :
             LET tried  == urls # <<>> \/ data.title # ""
                 log1   == IF tried /\ ~archived
                           THEN Append(cl_log, "archive_failed") ELSE cl_log
             IN  /\ history' = IF tried /\ archived
                               THEN Append(history,
                                           HistoryEntry(data.title, NoText, urls,
                                                        ArchiveStamp(data, now), "cleanup"))
                               ELSE history
                 /\ count' = count + 1
                 /\ IF CommitDue(count + 1)
                    THEN IF ok
                         THEN /\ news' = news \ Range(queued)
                              /\ batches' = Append(batches, [phase |-> "evict", docs |-> queued])
                              /\ batch' = <<>>
                              /\ cl_pc' = cl_pc
                              /\ cl_log' = log1
                         ELSE /\ cl_pc' = "purge_query"
                              /\ batch' = <<>>
                              /\ cl_log' = Append(log1, "cleanup_failed")
                              /\ UNCHANGED <<news, batches>>
                    ELSE /\ batch' = queued
                         /\ cl_log' = log1
                         /\ UNCHANGED <<news, batches, cl_pc>>
    /\ UNCHANGED <<all_news, to_delete, old_history, CleanupRest>>

\* After the loop: if count % 400 != 0: batch.commit()
EvictFlush(commits) ==
    /\ cl_pc = "evict" /\ count = Len(to_delete)
    /\ IF FlushDue(count)
       THEN \E ok \in commits :
              IF ok
              THEN /\ news' = news \ Range(batch)
                   /\ batches' = Append(batches, [phase |-> "evict", docs |-> batch])
                   /\ cl_log' = cl_log
              ELSE /\ cl_log' = Append(cl_log, "cleanup_failed")
                   /\ UNCHANGED <<news, batches>>
       ELSE UNCHANGED <<news, batches, cl_log>>
    /\ batch' = <<>>
    /\ cl_pc' = "purge_query"
    /\ UNCHANGED <<history, all_news, to_delete, old_history, count, CleanupRest>>

\* old_history = list(... where("createdAt", "<", cutoff_iso) ...): the
\* documents are referred to by their position in the collection.  A failed
\* read is caught by the except of part 2.
PurgeQuery(reads) ==
    /\ cl_pc = "purge_query"
    /\ \E ok \in reads :
         IF ok
         THEN LET old == SelectSeq([k \in 1..Len(history) |-> k],
                             LAMBDA k : Expired(history[k].createdAt, now))
              IN  /\ old_history' = old
                  /\ cl_pc' = IF old = <<>> THEN "done" ELSE "purge"
                  /\ cl_log' = cl_log
         ELSE /\ old_history' = <<>>
              /\ cl_pc' = "done"
              /\ cl_log' = Append(cl_log, "history_failed")
    /\ batch' = <<>> /\ count' = 0
    /\ UNCHANGED <<news, history, all_news, to_delete, batches, CleanupRest>>

\* Commit of a purge batch: the queued documents leave the collection.  The
\* done_before documents committed before them were at lower positions.
PurgeCommit(docs, done_before) ==
    /\ history' = DropAt(history, {docs[k] - done_before : k \in 1..Len(docs)})
    /\ batches' = Append(batches, [phase |-> "purge", docs |-> docs])

\* One pass of "for doc_snap in old_history"
PurgeOne(commits) ==
    /\ cl_pc = "purge" /\ count < Len(old_history)
    /\ LET queued == Append(batch, old_history[count + 1])
       IN  /\ count' = count + 1
           /\ IF CommitDue(count + 1)
              THEN \E ok \in commits :
                     IF ok
                     THEN /\ PurgeCommit(queued, count + 1 - Len(queued))
                          /\ batch' = <<>>
                          /\ UNCHANGED <<cl_pc, cl_log>>
                     ELSE /\ cl_pc' = "done"
                          /\ batch' = <<>>
                          /\ cl_log' = Append(cl_log, "history_failed")
                          /\ UNCHANGED <<history, batches>>
              ELSE /\ batch' = queued
                   /\ UNCHANGED <<history, batches, cl_pc, cl_log>>
    /\ UNCHANGED <<news, all_news, to_delete, old_history, CleanupRest>>

\* After the loop: if count % 400 != 0: batch.commit(); cleanup() returns.
PurgeFlush(commits) ==
    /\ cl_pc = "purge" /\ count = Len(old_history)
    /\ IF FlushDue(count)
       THEN \E ok \in commits :
              IF ok
              THEN PurgeCommit(batch, count - Len(batch)) /\ cl_log' = cl_log
              ELSE /\ cl_log' = Append(cl_log, "history_failed")
                   /\ UNCHANGED <<history, batches>>
       ELSE UNCHANGED <<history, batches, cl_log>>
    /\ batch' = <<>>
    /\ cl_pc' = "done"
    /\ UNCHANGED <<news, all_news, to_delete, old_history, count, CleanupRest>>

(***************************************************************************)
(* The feed pipeline, scripts/generate_news.py: main(), cleanup_old_news,  *)
(* process_news_entries, is_duplicate_title, title_similarity,             *)
(* save_news_item.  Titles are strings; split() and lower() are given by   *)
(* their values on the titles that occur.                                  *)
(***************************************************************************)
MAX_PROCESS_LIMIT == 1
NEWS_TTL_HOURS    == 24
THRESHOLD_TENTHS  == 7       \* threshold: float = 0.7

T_TEN    == "one two three four five six seven eight nine ten"
T_SEVEN  == "one two three four five six seven red green blue"
T_SIX    == "one two three four five six red green blue black"
T_UPPER  == "ONE Two"
T_REPEAT == "ten ten ten"
T_OTHER  == "alpha beta"
T_SUFFIX == "alpha beta - The Verge"
T_BLANK  == "  "

\* str.split()
Split(t) ==
    CASE t = T_TEN    -> <<"one", "two", "three", "four", "five", "six", "seven", "eight",
                           "nine", "ten">>
      [] t = T_SEVEN  -> <<"one", "two", "three", "four", "five", "six", "seven", "red",
                           "green", "blue">>
      [] t = T_SIX    -> <<"one", "two", "three", "four", "five", "six", "red", "green",
                           "blue", "black">>
      [] t = T_UPPER  -> <<"ONE", "Two">>
      [] t = T_REPEAT -> <<"ten", "ten", "ten">>
      [] t = T_OTHER  -> <<"alpha", "beta">>
      [] t = T_SUFFIX -> <<"alpha", "beta", "-", "The", "Verge">>
      [] t = T_BLANK  -> <<>>
      [] t = ""       -> <<>>
      [] t = DEFAULT_TITLE -> <<"New", "Developments", "in", "AI", "and", "Technology">>
      [] t = "llm headline" -> <<"llm", "headline">>
      [] t = "first sentence" -> <<"first", "sentence">>

\* str.lower() on one word
LowerWord(w) ==
    CASE w = "ONE" -> "one"
      [] w = "Two" -> "two"
      [] w = "The" -> "the"
      [] w = "Verge" -> "verge"
      [] w = "New" -> "new"
      [] w = "Developments" -> "developments"
      [] w = "AI" -> "ai"
      [] w = "Technology" -> "technology"
      [] OTHER -> w

\* set(a.lower().split())
WordSet(t) == {LowerWord(w) : w \in Range(Split(t))}

\* clean_title: re.sub(r'\s*-\s*[^-]+$', '', title), stripped
CleanTitle(t) == IF t = T_SUFFIX THEN T_OTHER ELSE IF t = T_BLANK THEN "" ELSE t

Smaller(m, n) == IF m < n THEN m ELSE n

\* title_similarity: the quotient overlap / min(len(words_a), len(words_b)),
\* kept as numerator and denominator; 0.0 when a word set is empty
TitleSimilarity(a, b) ==
    LET words_a == WordSet(a)
        words_b == WordSet(b)
    IN  IF words_a = {} \/ words_b = {}
        THEN [num |-> 0, den |-> 1]
        ELSE [num |-> Cardinality(words_a \cap words_b),
              den |-> Smaller(Cardinality(words_a), Cardinality(words_b))]

\* variant: similarity strictly above the threshold
AboveThreshold(sim) == sim.num * 10 > THRESHOLD_TENTHS * sim.den

\* title_similarity(title, existing) >= threshold
AtLeastThreshold(sim) == sim.num * 10 >= THRESHOLD_TENTHS * sim.den

\* is_duplicate_title: the loop over existing_titles from position k on
RECURSIVE DuplicateFrom(_, _, _)
DuplicateFrom(t, existing, k) ==
    IF k > Len(existing) THEN FALSE
    ELSE IF AtLeastThreshold(TitleSimilarity(t, existing[k])) THEN TRUE
    ELSE DuplicateFrom(t, existing, k + 1)

IsDuplicateTitle(t, existing) == DuplicateFrom(t, existing, 1)

\* One feedparser entry, as far as the pipeline reads it.  published: <<d>>
\* for the day d of published_parsed, <<>> when the entry has none; ai_like:
\* the value of is_ai_article on its text.
\* media: the url of its first media_content, media_thumbnail or image
\* enclosure/link; description_img: the src of the first img of its
\* description; NoImage where it has none.
NoImage == "<None>"
FeedEntry(link, t, published, ai_like) ==
    [link |-> link, title |-> t, published |-> published, ai_like |-> ai_like,
     media |-> "https://img.example/media.jpg", description_img |-> NoImage]

\* the same entry with an image only in its description, and with no image
InlineImageOnly(entry) ==
    [entry EXCEPT !.media = NoImage, !.description_img = "https://img.example/inline.jpg"]
Imageless(entry) == [entry EXCEPT !.media = NoImage, !.description_img = NoImage]

\* extract_image_from_entry: the first image found, else None
ExtractImageFromEntry(entry) ==
    IF entry.media # NoImage THEN entry.media
    ELSE IF entry.description_img # NoImage THEN entry.description_img
    ELSE NoImage

\* str(uuid.uuid4()): an id no other record has
FreshId(n) == 100 + n

\* the item built from an entry
FeedItem(entry, cat, at, n) ==
    [id |-> FreshId(n), title |-> CleanTitle(entry.title), summary |-> Text("summary", 200, 1),
     image_url |-> ExtractImageFromEntry(entry), source_link |-> entry.link,
     source_name |-> "feed",
     date |-> IF entry.published = <<>> THEN at ELSE entry.published[1], category |-> cat]

\* categorize_article
CategorizeArticle(entry) == IF entry.ai_like THEN "ai" ELSE "tech"

\* variant: the loop stops one entry later
LimitReachedLate(processed_count) == processed_count > MAX_PROCESS_LIMIT

\* if processed_count >= MAX_PROCESS_LIMIT: break
LimitReached(processed_count) == processed_count >= MAX_PROCESS_LIMIT

\* One "for entry in entries" loop of process_news_entries from position k:
\* the items appended and the processed count.  phase 1 labels every item "ai".
RECURSIVE EntryLoop(_, _, _, _, _, _, _, _)
EntryLoop(entries, k, links, titles, items, processed_count, phase, at) ==
    IF k > Len(entries) \/ LimitReached(processed_count)
    THEN [items |-> items, processed_count |-> processed_count]
    ELSE LET entry == entries[k]
         IN  IF entry.link \in links \/ IsDuplicateTitle(CleanTitle(entry.title), titles)
             THEN EntryLoop(entries, k + 1, links, titles, items, processed_count, phase, at)
             ELSE EntryLoop(entries, k + 1, links, titles,
                            Append(items, FeedItem(entry,
                                                   IF phase = 1 THEN "ai"
                                                   ELSE CategorizeArticle(entry),
                                                   at, Len(items) + 1)),
                            processed_count + 1, phase, at)

\* variant: the tech entries are tried whether or not an AI entry was taken
ProcessNewsEntriesBoth(ai, tech, links, titles, at) ==
    LET first == EntryLoop(ai, 1, links, titles, <<>>, 0, 1, at)
    IN  EntryLoop(tech, 1, links, titles, first.items, 0, 2, at).items

\* process_news_entries: AI entries first, tech entries when none was taken
ProcessNewsEntries(ai, tech, links, titles, at) ==
    LET first == EntryLoop(ai, 1, links, titles, <<>>, 0, 1, at)
    IN  IF first.processed_count = 0
        THEN EntryLoop(tech, 1, links, titles, first.items, 0, 2, at).items
        ELSE first.items

\* order_by('date', direction=DESCENDING)
NewestFirst(S) ==
    LET sorted == OrderByDate(S)
    IN  [k \in 1..Len(sorted) |-> sorted[Len(sorted) + 1 - k]]

FeedRest == <<history, health, now, procVars, searchVars, genVars, lateVars, writeVars,
              imgVars, cleanVars, other>>

\* main(): init_firebase (None: return), then cleanup_old_news, which deletes
\* the records older than NEWS_TTL_HOURS and swallows its own failure.
FeedMain(clients, cleanups) ==
    /\ f_pc = "idle"
    /\ \E db \in clients, ok \in cleanups :
         IF ~db
         THEN f_pc' = "done" /\ news' = news
         ELSE /\ f_pc' = "fetch"
              /\ news' = IF ok
                         THEN {a \in news : ~(a.date < now - NEWS_TTL_HOURS \div 24)}
                         ELSE news
    /\ UNCHANGED <<FeedRest, ai_entries, tech_entries, existing_titles, new_items,
                   item_idx, saved>>

\* get_gemini_model, fetch_all_news; with no entry at all main returns
FeedFetch(ai_lists, tech_lists) ==
    /\ f_pc = "fetch"
    /\ \E ai \in ai_lists, tech \in tech_lists :
         /\ ai_entries' = ai
         /\ tech_entries' = tech
         /\ f_pc' = IF ai = <<>> /\ tech = <<>> THEN "done" ELSE "process"
    /\ UNCHANGED <<FeedRest, news, existing_titles, new_items, item_idx, saved>>

\* load_existing_news (a failed read gives []) and process_news_entries;
\* with no new item main returns
FeedProcess(reads) ==
    /\ f_pc = "process"
    /\ \E ok \in reads :
         LET existing == IF ok THEN NewestFirst(news) ELSE <<>>
             links    == {existing[k].source_link : k \in
                             {j \in 1..Len(existing) : "source_link" \in DOMAIN existing[j]}}
             titles   == [k \in 1..Len(existing) |-> existing[k].title]
             items    == ProcessNewsEntries(ai_entries, tech_entries, links, titles, now)
         IN  /\ existing_titles' = titles
             /\ new_items' = items
             /\ f_pc' = IF items = <<>> THEN "done" ELSE "save"
    /\ item_idx' = 1 /\ saved' = 0
    /\ UNCHANGED <<FeedRest, news, ai_entries, tech_entries>>

\* One pass of "for item in new_items": save_news_item swallows a failed set
FeedSave(writes) ==
    /\ f_pc = "save"
    /\ \E ok \in writes :
         IF ok
         THEN news' = news \cup {new_items[item_idx]} /\ saved' = saved + 1
         ELSE UNCHANGED <<news, saved>>
    /\ item_idx' = item_idx + 1
    /\ f_pc' = IF item_idx = Len(new_items) THEN "done" ELSE "save"
    /\ UNCHANGED <<FeedRest, ai_entries, tech_entries, existing_titles, new_items>>

\* A day passes between two runs.
Tick ==
    /\ pc = "exited"
    /\ now < MaxDay
    /\ now' = now + 1
    /\ UNCHANGED <<news, history, health, procVars, searchVars, genVars, lateVars, writeVars>>
    /\ UNCHANGED auxVars

(***************************************************************************)
(* A second run of generate_news against the same stores, overlapping the  *)
(* first.  Only the steps that read or write the stores are separate       *)
(* actions; its fallback searches return nothing and its generation,       *)
(* headline and image steps succeed.                                       *)
(***************************************************************************)
OtherAtStart ==
    [pc |-> "idle", known_urls |-> {}, read_len |-> 0, results |-> <<>>,
     source_urls |-> <<>>]

OtherRest == <<storeVars, procVars, searchVars, genVars, lateVars, writeVars, imgVars,
               cleanVars, feedVars>>

\* known_urls = load_history_urls(db); read_len: the number of history
\* entries the read returned
OtherLoadHistory ==
    /\ other.pc = "idle"
    /\ ~LoadRaises(history)
    /\ other' = [other EXCEPT !.pc = "search",
                              !.known_urls = LoadHistoryUrls(history),
                              !.read_len = Len(history)]
    /\ UNCHANGED OtherRest

\* search_tavily, filter_by_url_history; with too little fresh text the run
\* goes to the fallback searches and ends without publishing
OtherSearch(lists) ==
    /\ other.pc = "search"
    /\ \E l \in lists :
         LET ff == FilterByUrlHistory(MapResults(l), other.known_urls)
         IN  other' = [other EXCEPT !.results = MapResults(l),
                                    !.source_urls = IF PrimaryWeak(ff[1]) THEN <<>>
                                                    ELSE SourceUrls(ff[1]),
                                    !.pc = IF PrimaryWeak(ff[1]) THEN "exited" ELSE "save"]
    /\ UNCHANGED OtherRest

\* the record the second run writes
OtherNewsItem ==
    [id |-> 0, title |-> "llm headline", summary |-> Text("field", 120, 1),
     image_url |-> "cloudinary:generated", category |-> "ai-tech", date |-> now]

\* db.collection("news").document(article_id).set(news_item)
OtherSaveNews ==
    /\ other.pc = "save"
    /\ news' = news \cup {OtherNewsItem}
    /\ other' = [other EXCEPT !.pc = "save_history"]
    /\ UNCHANGED <<history, health, now, procVars, searchVars, genVars, lateVars, writeVars,
                   imgVars, cleanVars, feedVars>>

\* save_to_history(db, title, article_text, source_urls)
OtherSaveToHistory ==
    /\ other.pc = "save_history"
    /\ history' = Append(history,
           HistoryEntry("llm headline", Text("field", 120, 1),
                        NormalizedList(other.source_urls), now, ""))
    /\ other' = [other EXCEPT !.pc = "exited"]
    /\ UNCHANGED <<news, health, now, procVars, searchVars, genVars, lateVars, writeVars,
                   imgVars, cleanVars, feedVars>>

\* A second cleanup job runs its eviction part (query, archive, delete,
\* commit) while the first one is between its query and its last commit.
ConcurrentEviction(min_keep) ==
    /\ cl_pc = "evict"
    /\ Cardinality(news) > min_keep
    /\ LET evicted == EvictOldest(news, history, Cardinality(news) - min_keep, now)
       IN  /\ news' = evicted.news
           /\ history' = evicted.history
    /\ UNCHANGED <<health, now, procVars, searchVars, genVars, lateVars, writeVars,
                   imgVars, cleanVars, feedVars, other>>

(***************************************************************************)
(* Process start: the locals of a run that has not started.                *)
(***************************************************************************)
LocalsAtStart ==
    [known_urls |-> {}, tier |-> 0, keys |-> <<>>, i |-> 1, requests |-> <<>>,
     searches |-> <<>>, search_result |-> <<>>, scraped_data |-> <<>>,
     total_filtered |-> 0, used_query |-> "", source_urls |-> <<>>,
     model_idx |-> 1, article_text |-> NoText, ai_category |-> "", used_model |-> "",
     word_count |-> 0, calls |-> <<>>, image_prompt |-> "", title |-> Unbound,
     category |-> "", article_id |-> 0, image_url |-> "", category_args |-> NoArgs,
     img_completion |-> "none", title_completion |-> [llm |-> "none", words |-> 0, first_len |-> 0]]

ImageLocalsAtStart ==
    [g4f_client |-> "unloaded", provider |-> 1, attempt |-> 1, img_attempts |-> <<>>,
     img_bytes |-> 0, uploads |-> <<>>]

CleanupLocalsAtStart ==
    [cl_pc |-> "idle", all_news |-> <<>>, to_delete |-> <<>>, old_history |-> <<>>,
     batch |-> <<>>, count |-> 0, batches |-> <<>>, cl_log |-> <<>>]

FeedLocalsAtStart ==
    [f_pc |-> "idle", ai_entries |-> <<>>, tech_entries |-> <<>>, existing_titles |-> <<>>,
     new_items |-> <<>>, item_idx |-> 1, saved |-> 0]

\* The scheduler starts the next run: a new process with fresh locals.
Restart(envs) ==
    /\ pc = "exited"
    /\ runs < MaxRuns
    /\ pc' = "idle"
    /\ exit_code' = -1
    /\ fatal' = ""
    /\ \E e \in envs : env' = e
    /\ LET l == LocalsAtStart
       IN  /\ known_urls' = l.known_urls /\ tier' = l.tier /\ keys' = l.keys /\ i' = l.i
           /\ requests' = l.requests /\ searches' = l.searches
           /\ search_result' = l.search_result /\ scraped_data' = l.scraped_data
           /\ total_filtered' = l.total_filtered /\ used_query' = l.used_query
           /\ source_urls' = l.source_urls /\ model_idx' = l.model_idx
           /\ article_text' = l.article_text /\ ai_category' = l.ai_category
           /\ used_model' = l.used_model /\ word_count' = l.word_count /\ calls' = l.calls
           /\ image_prompt' = l.image_prompt /\ title' = l.title /\ category' = l.category
           /\ article_id' = l.article_id /\ image_url' = l.image_url
           /\ category_args' = l.category_args
           /\ img_completion' = l.img_completion /\ title_completion' = l.title_completion
    /\ news_writes' = 0 /\ history_writes' = 0
    /\ LET l == ImageLocalsAtStart
       IN  /\ g4f_client' = l.g4f_client /\ provider' = l.provider /\ attempt' = l.attempt
           /\ img_attempts' = l.img_attempts /\ img_bytes' = l.img_bytes
           /\ uploads' = l.uploads
    /\ UNCHANGED <<storeVars, runs, cleanVars, feedVars, other>>

\* A process before its first step.
InitProcess(envs) ==
    /\ env \in envs /\ pc = "idle" /\ exit_code = -1 /\ fatal = "" /\ runs = 0
    /\ LET l == LocalsAtStart
       IN  /\ known_urls = l.known_urls /\ tier = l.tier /\ keys = l.keys /\ i = l.i
           /\ requests = l.requests /\ searches = l.searches
           /\ search_result = l.search_result /\ scraped_data = l.scraped_data
           /\ total_filtered = l.total_filtered /\ used_query = l.used_query
           /\ source_urls = l.source_urls /\ model_idx = l.model_idx
           /\ article_text = l.article_text /\ ai_category = l.ai_category
           /\ used_model = l.used_model /\ word_count = l.word_count /\ calls = l.calls
           /\ image_prompt = l.image_prompt /\ title = l.title /\ category = l.category
           /\ article_id = l.article_id /\ image_url = l.image_url
           /\ category_args = l.category_args
           /\ img_completion = l.img_completion /\ title_completion = l.title_completion
    /\ news_writes = 0 /\ history_writes = 0
    /\ other = OtherAtStart
    /\ LET l == ImageLocalsAtStart
       IN  /\ g4f_client = l.g4f_client /\ provider = l.provider /\ attempt = l.attempt
           /\ img_attempts = l.img_attempts /\ img_bytes = l.img_bytes
           /\ uploads = l.uploads
    /\ LET l == CleanupLocalsAtStart
       IN  /\ cl_pc = l.cl_pc /\ all_news = l.all_news /\ to_delete = l.to_delete
           /\ old_history = l.old_history /\ batch = l.batch /\ count = l.count
           /\ batches = l.batches /\ cl_log = l.cl_log
    /\ LET l == FeedLocalsAtStart
       IN  /\ f_pc = l.f_pc /\ ai_entries = l.ai_entries /\ tech_entries = l.tech_entries
           /\ existing_titles = l.existing_titles /\ new_items = l.new_items
           /\ item_idx = l.item_idx /\ saved = l.saved

InitWith(envs, histories) ==
    /\ news = {} /\ history \in histories /\ health = "none" /\ now = 0
    /\ InitProcess(envs)

(***************************************************************************)
(* Inputs.                                                                 *)
(***************************************************************************)
AllEnvs == [TAVILY_API_KEY : BOOLEAN, TAVILY_API_KEY_2 : BOOLEAN, CEREBRAS_API_KEY : BOOLEAN]
FullEnv == [TAVILY_API_KEY |-> TRUE, TAVILY_API_KEY_2 |-> TRUE, CEREBRAS_API_KEY |-> TRUE]

\* History ledgers left by earlier runs: save_to_history stores normalized URLs.
PastEntry(url) ==
    HistoryEntry(DEFAULT_TITLE, Text("field", 120, 1), <<NormalizeUrl(url)>>, 0, "")
InitHistories ==
    {<<>>, <<PastEntry(UrlPlain)>>, <<PastEntry(UrlParams)>>,
     <<PastEntry(UrlPlain), PastEntry(UrlParams)>>}

FewCompletions == {ClientError, Article(79, Absent), Article(80, " Health ")}
AllCompletions ==
    {ClientError, EmptyContent}
      \cup {Article(w, c) : w \in {0, 79, 80}, c \in {Absent, " Health ", "sports"}}
      \cup {NoArticleKey(w) : w \in {3, 90}} \cup {NotJson(w) : w \in {3, 90}}
      \cup {BadTypes(90), Article(300, Absent)}

TitleOutcome(llm, words, first_len) == [llm |-> llm, words |-> words, first_len |-> first_len]
FewTitles == {TitleOutcome("ok", 8, 40), TitleOutcome("error", 0, 120)}

ImageOutcome(g4f, upload, placeholder) == [g4f |-> g4f, upload |-> upload, placeholder |-> placeholder]
FewImages == {ImageOutcome(TRUE, TRUE, TRUE), ImageOutcome(FALSE, FALSE, FALSE)}

\* result lists of one item
OneItemLists ==
    {<<[title |-> 10, content |-> 39, url |-> u]>> : u \in {UrlPlain, UrlVariant, UrlParams}}

(***************************************************************************)
(* Spec: one run, every environment and every search response.             *)
(***************************************************************************)
Init == InitWith(AllEnvs, InitHistories)

Next ==
    \/ StartRun
    \/ LoadHistory(BOOLEAN)
    \/ TavilyRequest(ResultLists)
    \/ FilterTier1
    \/ FilterTier2
    \/ FilterTier3
    \/ CallModel(FewCompletions)
    \/ RetryModel(FewCompletions)
    \/ CheckArticle
    \/ ImagePromptStep({"ok"})
    \/ TitleStep({TitleOutcome("ok", 8, 40)})
    \/ CategoryStep({PlainArgs})
    \/ ImageStep(FewImages)
    \/ SaveNews(BOOLEAN)
    \/ SaveToHistory(BOOLEAN)
    \/ LogHealth(BOOLEAN)
    \/ MainExcept(BOOLEAN)

Spec == Init /\ [][Next]_vars

(***************************************************************************)
(* SpecGen: one run, every completion of the text backends.                *)
(***************************************************************************)
InitGen == InitWith({FullEnv}, {<<>>})

NextGen ==
    \/ StartRun
    \/ LoadHistory({TRUE})
    \/ TavilyRequest(OneItemLists)
    \/ FilterTier1
    \/ FilterTier2
    \/ FilterTier3
    \/ CallModel(AllCompletions)
    \/ RetryModel(AllCompletions)
    \/ CheckArticle
    \/ ImagePromptStep({"ok"})
    \/ TitleStep(FewTitles)
    \/ CategoryStep({PlainArgs})
    \/ ImageStep(FewImages)
    \/ SaveNews(BOOLEAN)
    \/ SaveToHistory(BOOLEAN)
    \/ LogHealth(BOOLEAN)
    \/ MainExcept(BOOLEAN)

SpecGen == InitGen /\ [][NextGen]_vars

(***************************************************************************)
(* SpecRuns: sequential runs against the same stores, with the cleanup job *)
(* and the clock running between them.                                     *)
(***************************************************************************)
InitRuns == InitWith({FullEnv}, {<<>>})

NextRuns ==
    \/ StartRun
    \/ LoadHistory({TRUE})
    \/ TavilyRequest(OneItemLists)
    \/ FilterTier1
    \/ FilterTier2
    \/ FilterTier3
    \/ CallModel({ClientError, Article(79, Absent), Article(80, Absent)})
    \/ RetryModel({Article(80, Absent)})
    \/ CheckArticle
    \/ ImagePromptStep({"ok"})
    \/ TitleStep({TitleOutcome("ok", 8, 40)})
    \/ CategoryStep({PlainArgs})
    \/ ImageStep({ImageOutcome(TRUE, TRUE, TRUE)})
    \/ SaveNews(BOOLEAN)
    \/ SaveToHistory(BOOLEAN)
    \/ LogHealth({TRUE})
    \/ MainExcept({TRUE})
    \/ Restart({FullEnv})
    \/ Cleanup({TRUE})
    \/ Tick

SpecRuns == InitRuns /\ [][NextRuns]_vars

(***************************************************************************)
(* SpecImage: one run with the image step taken attempt by attempt.        *)
(***************************************************************************)
ClientOutcomes == {"ok", "not_installed", "error", "module_missing"}

G4fOutcomes ==
    {G4fPoll("error", <<>>), G4fPoll("empty", <<>>),
     G4fPoll("url", <<Download("ok", 1000), Download("status", 0), Download("error", 0)>>),
     G4fPoll("url", <<Download("ok", 1000), Download("ok", 1001), Download("ok", 1002)>>),
     G4fPoll("url", <<Download("error", 0), Download("status", 0), Download("ok", 1002)>>)}

PollinationsOutcomes ==
    {Download("error", 0), Download("status", 0), Download("ok", 5000),
     Download("ok", 5001)}

PlaceholderFetches ==
    {Download("error", 0), Download("ok", 0), Download("status", 500), Download("ok", 501)}

InitImage == InitWith({FullEnv}, {<<>>})

NextImage ==
    \/ StartRun
    \/ LoadHistory({TRUE})
    \/ TavilyRequest({<<[title |-> 10, content |-> 39, url |-> UrlPlain]>>})
    \/ FilterTier1
    \/ FilterTier2
    \/ FilterTier3
    \/ CallModel({ClientError, Article(79, Absent), Article(120, Absent)})
    \/ RetryModel({Article(80, Absent)})
    \/ CheckArticle
    \/ ImagePromptStep({"ok"})
    \/ TitleStep({TitleOutcome("ok", 8, 40)})
    \/ CategoryStep({PlainArgs})
    \/ ImageStart(ClientOutcomes)
    \/ G4fAttempt(G4fOutcomes)
    \/ PollinationsAttempt(PollinationsOutcomes)
    \/ UploadGenerated(UploadOutcomes)
    \/ UploadPlaceholder(PlaceholderFetches, UploadOutcomes)
    \/ SaveNews({TRUE})
    \/ SaveToHistory({TRUE})
    \/ LogHealth({TRUE})
    \/ MainExcept({TRUE})

SpecImage == InitImage /\ [][NextImage]_vars

(***************************************************************************)
(* SpecBounded: one run in which every external call either fails or       *)
(* answers, and in which a step that can be taken is taken (every call     *)
(* returns or times out).  The text backends name a category.              *)
(***************************************************************************)
InitBounded == InitWith({FullEnv}, {<<>>})

NextBounded ==
    \/ StartRun
    \/ LoadHistory({TRUE})
    \/ TavilyRequest({<<[title |-> 10, content |-> 39, url |-> UrlPlain]>>})
    \/ FilterTier1
    \/ FilterTier2
    \/ FilterTier3
    \/ CallModel({ClientError, Article(79, " Health "), Article(120, " Health ")})
    \/ RetryModel({ClientError, Article(80, " Health ")})
    \/ CheckArticle
    \/ ImagePromptStep({"ok"})
    \/ TitleStep({TitleOutcome("ok", 8, 40)})
    \/ CategoryStep({PlainArgs})
    \/ ImageStart({"ok", "error"})
    \/ G4fAttempt({G4fPoll("error", <<>>),
                   G4fPoll("url", <<Download("ok", 1001), Download("ok", 1001),
                                    Download("ok", 1001)>>)})
    \/ PollinationsAttempt({Download("error", 0), Download("ok", 5001)})
    \/ UploadGenerated({"url", "raise"})
    \/ UploadPlaceholder({Download("error", 0), Download("ok", 501)}, {"url", "raise"})
    \/ SaveNews({TRUE})
    \/ SaveToHistory({TRUE})
    \/ LogHealth({TRUE})
    \/ MainExcept({TRUE})

SpecBounded == InitBounded /\ [][NextBounded]_vars /\ WF_vars(NextBounded)

(***************************************************************************)
(* SpecUrl: one run whose search results carry every kind of URL value.    *)
(***************************************************************************)
UrlInputs == {UrlPlain, UrlVariant, UrlParams, UrlParamsBare, UrlMalformed, NullUrl}

UrlLists == SeqsUpTo([title : {10}, content : {39}, url : UrlInputs], MaxResults) \ {<<>>}

InitUrl == InitWith({FullEnv}, {<<>>, <<PastEntry(UrlParams)>>})

NextUrl ==
    \/ StartRun
    \/ LoadHistory({TRUE})
    \/ TavilyRequest(UrlLists)
    \/ FilterTier1
    \/ FilterTier2
    \/ FilterTier3
    \/ CallModel({ClientError, Article(79, Absent), Article(120, Absent)})
    \/ RetryModel({Article(80, Absent)})
    \/ CheckArticle
    \/ ImagePromptStep({"ok"})
    \/ TitleStep({TitleOutcome("ok", 8, 40)})
    \/ CategoryStep({PlainArgs})
    \/ ImageStep({ImageOutcome(TRUE, TRUE, TRUE)})
    \/ SaveNews({TRUE})
    \/ SaveToHistory({TRUE})
    \/ LogHealth({TRUE})
    \/ MainExcept({TRUE})

SpecUrl == InitUrl /\ [][NextUrl]_vars

(***************************************************************************)
(* SpecCategory: one run whose completions carry every kind of category    *)
(* value and whose query, title and article read as keyword-bearing text.  *)
(***************************************************************************)
\* 50 characters without a keyword
Filler50 == "the model ships next week with its faster chips . "
Filler500 == Filler50 \o Filler50 \o Filler50 \o Filler50 \o Filler50 \o
             Filler50 \o Filler50 \o Filler50 \o Filler50 \o Filler50

CategoryTexts ==
    {PlainArgs,
     CategoryArgs("AI coding programming developer tools news",
                  "Hospital Chain Adopts New Coding Assistant for Staff",
                  "An investor group raised funding for the rollout."),
     CategoryArgs("AI coding programming developer tools news",
                  "Chip Maker Ships Faster Model",
                  "Health, health and health again: carbon and solar budgets."),
     CategoryArgs("climate change environmental research news",
                  "Blind Users Test Screen Reader", "Deaf users follow."),
     CategoryArgs("climate change environmental research news",
                  "Chip Maker Ships Faster Model", "The model ships next week."),
     CategoryArgs("artificial intelligence news today", "Solar Stock Jumps on Launch", ""),
     CategoryArgs("artificial intelligence news today", "Stock Of Solar Maker Jumps", ""),
     CategoryArgs("space technology SpaceX NASA launch news",
                  "Chip Maker Ships Faster Model", "The telescope is ready."),
     CategoryArgs("tech company earnings big tech stock news",
                  "Chip Maker Ships Faster Model", "Revenue grew on streaming."),
     CategoryArgs("social media platform changes updates news",
                  "TikTok And YouTube Change Rules", "Music and gaming follow."),
     CategoryArgs("geopolitical technology competition world news",
                  "Chip Maker Ships Faster Model", "The model ships next week."),
     CategoryArgs("healthcare technology innovation AI medical news",
                  "Chip Maker Ships Faster Model", "The model ships next week."),
     CategoryArgs("artificial intelligence news today", "Look Who",
                  "The model ships to who"),
     CategoryArgs("artificial intelligence news today", "Chip Maker Ships Faster Model",
                  SubSeq(Filler500, 1, 496) \o "hospital vaccine")}

CategoryCompletions ==
    {ClientError, Article(120, Absent), Article(120, "health"), Article(120, " Health "),
     Article(120, "climate"), Article(120, "general"), Article(79, Absent),
     Article(79, "world"), Article(79, "sports")}

CategoryRetries ==
    {ClientError, Article(100, Absent), Article(100, "disability"),
     Article(100, "science"), Article(60, "disability")}

InitCategory == InitWith({FullEnv}, {<<>>})

NextCategory ==
    \/ StartRun
    \/ LoadHistory({TRUE})
    \/ TavilyRequest({<<[title |-> 10, content |-> 39, url |-> UrlPlain]>>})
    \/ FilterTier1
    \/ FilterTier2
    \/ FilterTier3
    \/ CallModel(CategoryCompletions)
    \/ RetryModel(CategoryRetries)
    \/ CheckArticle
    \/ ImagePromptStep({"ok"})
    \/ TitleStep(FewTitles)
    \/ CategoryStep(CategoryTexts)
    \/ ImageStep({ImageOutcome(TRUE, TRUE, TRUE)})
    \/ SaveNews({TRUE})
    \/ SaveToHistory({TRUE})
    \/ LogHealth({TRUE})
    \/ MainExcept({TRUE})

SpecCategory == InitCategory /\ [][NextCategory]_vars

(***************************************************************************)
(* SpecTitle: one run with every outcome of the image-prompt request and   *)
(* of the headline step.                                                   *)
(***************************************************************************)
RichTitles ==
    {TitleOutcome(l, w, f) : l \in {"ok", "error"}, w \in {0, 3, 4, 8},
                             f \in {0, 15, 16, 119, 120}}

InitTitle == InitWith({FullEnv}, {<<>>})

NextTitle ==
    \/ StartRun
    \/ LoadHistory({TRUE})
    \/ TavilyRequest({<<[title |-> 10, content |-> 39, url |-> UrlPlain]>>})
    \/ FilterTier1
    \/ FilterTier2
    \/ FilterTier3
    \/ CallModel({ClientError, Article(79, Absent), Article(120, Absent)})
    \/ RetryModel({Article(80, Absent)})
    \/ CheckArticle
    \/ ImagePromptStep({"ok", "error"})
    \/ TitleStep(RichTitles)
    \/ CategoryStep({PlainArgs})
    \/ ImageStep({ImageOutcome(TRUE, TRUE, TRUE)})
    \/ SaveNews({TRUE})
    \/ SaveToHistory({TRUE})
    \/ LogHealth({TRUE})
    \/ MainExcept({TRUE})

SpecTitle == InitTitle /\ [][NextTitle]_vars

(***************************************************************************)
(* SpecOverlap: two runs of generate_news overlap on the same stores.      *)
(***************************************************************************)
OverlapLists ==
    SeqsUpTo([title : {10}, content : {39}, url : {UrlPlain, UrlVariant, UrlParams}], 2)
        \ {<<>>}

InitOverlap == InitWith({FullEnv}, {<<>>, <<PastEntry(UrlPlain)>>})

NextOverlap ==
    \/ OtherLoadHistory
    \/ OtherSearch(OverlapLists)
    \/ OtherSaveNews
    \/ OtherSaveToHistory
    \/ StartRun
    \/ LoadHistory({TRUE})
    \/ TavilyRequest(OverlapLists)
    \/ FilterTier1
    \/ FilterTier2
    \/ FilterTier3
    \/ CallModel({ClientError, Article(79, Absent), Article(120, Absent)})
    \/ RetryModel({Article(80, Absent)})
    \/ CheckArticle
    \/ ImagePromptStep({"ok"})
    \/ TitleStep({TitleOutcome("ok", 8, 40)})
    \/ CategoryStep({PlainArgs})
    \/ ImageStep({ImageOutcome(TRUE, TRUE, TRUE)})
    \/ SaveNews({TRUE})
    \/ SaveToHistory({TRUE})
    \/ LogHealth({TRUE})
    \/ MainExcept({TRUE})

SpecOverlap == InitOverlap /\ [][NextOverlap]_vars

(***************************************************************************)
(* SpecFeed: one run of the feed pipeline beside one run of the search     *)
(* pipeline, against the same news collection.                             *)
(***************************************************************************)
\* a record an earlier run of the feed pipeline stored
FeedRecord(id, t, link, date) ==
    [id |-> id, title |-> t, summary |-> Text("summary", 200, 1), image_url |-> "entry image",
     source_link |-> link, source_name |-> "feed", date |-> date, category |-> "ai"]

FeedStores ==
    {{},
     {FeedRecord(11, T_TEN, "L0", 0)},
     {FeedRecord(11, T_TEN, "L0", 0), FeedRecord(12, T_OTHER, "L9", -2)}}

AiLists ==
    {<<>>,
     <<FeedEntry("L1", T_SEVEN, <<>>, TRUE), Imageless(FeedEntry("L2", T_SIX, <<0>>, TRUE)),
       FeedEntry("L4", T_SUFFIX, <<>>, TRUE)>>,
     <<FeedEntry("L0", "first sentence", <<>>, TRUE), FeedEntry("L3", T_UPPER, <<>>, TRUE),
       FeedEntry("L6", T_REPEAT, <<>>, TRUE)>>,
     <<FeedEntry("L5", T_BLANK, <<>>, TRUE), FeedEntry("L2", T_SIX, <<>>, TRUE)>>}

TechLists ==
    {<<>>,
     <<FeedEntry("L0", T_OTHER, <<>>, FALSE), InlineImageOnly(FeedEntry("L7", T_SIX, <<>>, FALSE)),
       FeedEntry("L8", T_OTHER, <<>>, FALSE)>>}

InitFeed ==
    /\ news \in FeedStores /\ history = <<>> /\ health = "none" /\ now = 0
    /\ InitProcess({FullEnv})

NextFeed ==
    \/ FeedMain(BOOLEAN, BOOLEAN)
    \/ FeedFetch(AiLists, TechLists)
    \/ FeedProcess(BOOLEAN)
    \/ FeedSave(BOOLEAN)
    \/ StartRun
    \/ LoadHistory({TRUE})
    \/ TavilyRequest({<<[title |-> 10, content |-> 39, url |-> UrlPlain]>>})
    \/ FilterTier1
    \/ FilterTier2
    \/ FilterTier3
    \/ CallModel({ClientError, Article(79, Absent), Article(120, Absent)})
    \/ RetryModel({Article(80, Absent)})
    \/ CheckArticle
    \/ ImagePromptStep({"ok"})
    \/ TitleStep({TitleOutcome("ok", 8, 40)})
    \/ CategoryStep({PlainArgs})
    \/ ImageStep({ImageOutcome(TRUE, TRUE, TRUE)})
    \/ SaveNews(BOOLEAN)
    \/ SaveToHistory({TRUE})
    \/ LogHealth({TRUE})
    \/ MainExcept({TRUE})

SpecFeed == InitFeed /\ [][NextFeed]_vars

(***************************************************************************)
(* SpecCleanup: the cleanup job run on stores of different sizes.          *)
(***************************************************************************)
MaxBatches == 2        \* full batches a loop of the cleanup job commits
CleanupDay == 2000     \* the day the cleanup job runs

\* numbers of documents a loop is given: around every multiple of 400
LoopCounts ==
    {0, 1} \cup UNION {{BATCH_LIMIT * b - 1, BATCH_LIMIT * b, BATCH_LIMIT * b + 1} :
                         b \in 1..MaxBatches}

\* The record generate_news stored for its k-th article, and the history
\* entry save_to_history stored with it.
StoredRecord(k) ==
    [id |-> k, title |-> DEFAULT_TITLE, summary |-> Text("field", 120, 1),
     image_url |-> "cloudinary:generated", category |-> "ai-tech", date |-> k]
StoredEntry(k, at) ==
    HistoryEntry(DEFAULT_TITLE, Text("field", 120, 1), <<NormalizeUrl(UrlPlain)>>, at, "")

\* m entries older than the TTL, one exactly as old as the TTL, one of today
StoredHistory(m) ==
    [k \in 1..(m + 2) |->
        IF k <= m THEN StoredEntry(k, k)
        ELSE IF k = m + 1 THEN StoredEntry(k, CleanupDay - HISTORY_TTL_DAYS)
        ELSE StoredEntry(k, CleanupDay)]

\* Entries aged 20, 1, 11 and 9 days, in the order they are stored.
AgedHistory ==
    <<StoredEntry(1, CleanupDay - 20), StoredEntry(2, CleanupDay - 1),
      StoredEntry(3, CleanupDay - 11), StoredEntry(4, CleanupDay - 9)>>

\* Stores with c records over the minimum, stores with c expired history
\* entries, one store with both, stores with no excess, and the ledger of
\* aged entries beside an empty and beside an overfull store.
InitCleanup ==
    /\ \/ \E c \in LoopCounts :
            /\ news = {StoredRecord(k) : k \in 1..(MIN_ARTICLES + c)}
            /\ history = StoredHistory(0)
       \/ \E c \in LoopCounts :
            /\ news = {StoredRecord(k) : k \in 1..(MIN_ARTICLES - 1)}
            /\ history = StoredHistory(c)
       \/ /\ news = {StoredRecord(k) : k \in 1..(MIN_ARTICLES + 2)}
          /\ history = StoredHistory(2)
       \/ /\ news = {}
          /\ history = <<>>
       \/ \E n \in {0, MIN_ARTICLES + 1} :
            /\ news = {StoredRecord(k) : k \in 1..n}
            /\ history = AgedHistory
    /\ health = "none" /\ now = CleanupDay
    /\ InitProcess({FullEnv})

NextCleanup ==
    \/ CleanupQuery(MIN_ARTICLES, BOOLEAN)
    \/ EvictOne({1}, BOOLEAN)
    \/ EvictFlush(BOOLEAN)
    \/ PurgeQuery(BOOLEAN)
    \/ PurgeOne(BOOLEAN)
    \/ PurgeFlush(BOOLEAN)

SpecCleanup == InitCleanup /\ [][NextCleanup]_vars

(***************************************************************************)
(* SpecStale: the cleanup job, document by document, while a run of        *)
(* generate_news inserts a record and a second cleanup job evicts.         *)
(***************************************************************************)
InitStale ==
    /\ \E c \in 0..3 : news = {StoredRecord(k) : k \in 1..(MIN_ARTICLES + c)}
    /\ history = AgedHistory /\ health = "none" /\ now = CleanupDay
    /\ InitProcess({FullEnv})

NextStale ==
    \/ CleanupQuery(MIN_ARTICLES, {TRUE})
    \/ EvictOne({}, {TRUE})
    \/ EvictFlush(BOOLEAN)
    \/ PurgeQuery({TRUE})
    \/ PurgeOne({TRUE})
    \/ PurgeFlush({TRUE})
    \/ ConcurrentEviction(MIN_ARTICLES)
    \/ OtherLoadHistory
    \/ OtherSearch({<<[title |-> 10, content |-> 39, url |-> UrlParams]>>})
    \/ OtherSaveNews
    \/ OtherSaveToHistory

SpecStale == InitStale /\ [][NextStale]_vars

(***************************************************************************)
(* SpecKeep: the daily cleanup job and the hourly feed pipeline, which     *)
(* starts with its own 24-hour cleanup, on the same news collection.       *)
(***************************************************************************)
InitKeep ==
    /\ \E c \in 0..2 : news = {StoredRecord(k) : k \in 1..(MIN_ARTICLES + c)}
    /\ history = AgedHistory /\ health = "none" /\ now = CleanupDay
    /\ InitProcess({FullEnv})

NextKeep ==
    \/ CleanupQuery(MIN_ARTICLES, {TRUE})
    \/ EvictOne({}, {TRUE})
    \/ EvictFlush({TRUE})
    \/ PurgeQuery({TRUE})
    \/ PurgeOne({TRUE})
    \/ PurgeFlush({TRUE})
    \/ FeedMain(BOOLEAN, BOOLEAN)
    \/ FeedFetch({<<>>, <<FeedEntry("L1", T_SEVEN, <<>>, TRUE)>>}, {<<>>})
    \/ FeedProcess({TRUE})
    \/ FeedSave(BOOLEAN)

SpecKeep == InitKeep /\ [][NextKeep]_vars

(***************************************************************************)
(* Properties.                                                             *)
(***************************************************************************)
ReachedGenerator == pc \in {"generate", "retry"} \/ calls # <<>>

\* the results whose normalized URL is not known, in their order
RECURSIVE KeptInOrder(_, _)
KeptInOrder(results, known) ==
    IF results = <<>> THEN <<>>
    ELSE IF NormalizeUrl(Head(results).url) \in known
         THEN KeptInOrder(Tail(results), known)
         ELSE <<Head(results)>> \o KeptInOrder(Tail(results), known)

\* length of the combined text of the results: title, a space, description
RECURSIVE CombinedLength(_)
CombinedLength(data) ==
    IF data = <<>> THEN 0
    ELSE Head(data).title + 1 + Head(data).description + CombinedLength(Tail(data))

IsPrefix(a, b) == Len(a) <= Len(b) /\ \A k \in 1..Len(a) : a[k] = b[k]

\* C1: writes are all-or-nothing.  A run that fails fatally has written no
\* Article Record and appended no history entry; a run that exits with success
\* has written exactly one Article Record; and a record is written only after
\* search, text generation, title, category and image steps have all finished.
C1_AllOrNothing ==
    /\ (fatal # "" \/ exit_code = 1) =>
          (news = {} /\ news_writes = 0 /\ history_writes = 0 /\ history \in InitHistories)
    /\ exit_code = 0 => (news_writes = 1 /\ news = {NewsItem})
    /\ news # {} =>
          /\ searches # <<>> /\ scraped_data # <<>>
          /\ calls # <<>> /\ article_text # NoText
          /\ title \notin {Unbound, ""}
          /\ category # ""
          /\ image_url # "" /\ article_id = runs
          /\ pc \in {"save_history", "log_health", "exited"}

C1_Witness ==
    /\ pc = "exited" /\ exit_code = 1 /\ fatal = "news write failed"
    /\ image_url # "" /\ news = {}

\* C3: the dedup filter keeps exactly the results whose normalized URL is not
\* in the known-URL set, in their order, and reports the number removed; every
\* result that reaches the text generator, from any tier, has a normalized URL
\* that was absent from the history the run loaded.
C3_FilterStep ==
    pc = "filter" =>
        LET kept    == KeptInOrder(search_result, known_urls)
            removed == Len(search_result) - Len(kept)
        IN  /\ tier = 1 => (scraped_data' = kept /\ total_filtered' = removed)
            /\ (tier \in {2, 3} /\ pc' = "generate") =>
                  (scraped_data' = kept /\ total_filtered' = total_filtered + removed)

C3_Dedup ==
    /\ [][C3_FilterStep]_vars
    /\ [](ReachedGenerator =>
            /\ known_urls = {NormalizeUrl(u) : u \in UNION {Range(e.sourceUrls) : e \in Range(history)}}
                 \/ history_writes > 0
            /\ \A k \in 1..Len(scraped_data) :
                  NormalizeUrl(scraped_data[k].url) \notin known_urls)

C3_Witness ==
    /\ pc = "generate" /\ tier = 3 /\ total_filtered = 2
    /\ known_urls = {NormalizeUrl(UrlVariant)}
    /\ Len(scraped_data) = 1 /\ scraped_data[1].url = UrlParams

\* C4: the Tier 2 search is issued if and only if the deduplicated Tier 1
\* result set is empty or its combined text is shorter than the floor of 50
\* characters; Tier 1 results that are all known lead to Tier 2, not to a fatal
\* failure; and when Tier 1 is sufficient no further search is issued.
C4_Step ==
    /\ (pc = "filter" /\ tier = 1) =>
          LET kept == KeptInOrder(search_result, known_urls)
              weak == kept = <<>> \/ CombinedLength(kept) < MIN_TOTAL_TEXT
          IN  /\ weak <=> (searches' = <<1, 2>>)
              /\ ~weak => (searches' = <<1>> /\ pc' = "generate")
              /\ pc' # "fatal"
    /\ (searches' # searches /\ searches'[Len(searches')] = 2) => (pc = "filter" /\ tier = 1)

C4_Escalation ==
    /\ [][C4_Step]_vars
    /\ []((ReachedGenerator /\ used_query = "search_query") => searches = <<1>>)

C4_Witness ==
    /\ tier = 2 /\ pc = "request" /\ fatal = ""
    /\ scraped_data = <<>> /\ total_filtered > 0

\* C5: Tier 3 is searched if and only if Tier 2 produced no fresh result; if
\* Tier 3 produces none either the run fails fatally without another search; a
\* run issues at most three tier searches and reaches text generation only
\* with a non-empty set of fresh results.
C5_Step ==
    LET kept == KeptInOrder(search_result, known_urls)
    IN  /\ (pc = "filter" /\ tier = 2) =>
              /\ (kept = <<>>) <=> (searches' = <<1, 2, 3>>)
              /\ (kept # <<>>) => (pc' = "generate" /\ searches' = searches)
        /\ (pc = "filter" /\ tier = 3 /\ kept = <<>>) =>
              (pc' = "fatal" /\ searches' = searches)
        /\ (searches' # searches /\ searches'[Len(searches')] = 3) => (pc = "filter" /\ tier = 2)
        /\ fatal = "No fresh search results found after all fallbacks" => searches' = searches

C5_Tier3 ==
    /\ [][C5_Step]_vars
    /\ [](/\ IsPrefix(searches, <<1, 2, 3>>)
          /\ ReachedGenerator =>
                /\ scraped_data # <<>>
                /\ \A k \in 1..Len(scraped_data) :
                      NormalizeUrl(scraped_data[k].url) \notin known_urls
          /\ fatal = "No fresh search results found after all fallbacks" =>
                (searches = <<1, 2, 3>> /\ calls = <<>>))

C5_Witness ==
    /\ fatal = "No fresh search results found after all fallbacks"
    /\ searches = <<1, 2, 3>> /\ pc = "exited"

\* C6: within one search_tavily call the credentials are tried in their
\* configured order, at most one request each; a timeout, an error status or
\* an empty result list moves on to the next credential; the first non-empty
\* result list ends the call; with every credential failed, or none
\* configured, the call returns the empty result and does not raise.
TavilyFailureKinds == {"timeout", "http_error", "empty"}

C6_Call ==
    pc \in {"request", "filter"} =>
        /\ keys = SelectSeq(<<"TAVILY_API_KEY", "TAVILY_API_KEY_2">>, LAMBDA k : env[k])
        /\ Len(requests) <= Len(keys)
        /\ \A k \in 1..Len(requests) : requests[k].key = keys[k]
        /\ \A k \in 1..(Len(requests) - 1) : requests[k].outcome \in TavilyFailureKinds
        /\ pc = "request" =>
              /\ Len(requests) = i - 1
              /\ \A k \in 1..Len(requests) : requests[k].outcome \in TavilyFailureKinds
        /\ pc = "filter" =>
              IF search_result # <<>>
              THEN requests # <<>> /\ requests[Len(requests)].outcome = "results"
              ELSE /\ Len(requests) = Len(keys)
                   /\ \A k \in 1..Len(requests) : requests[k].outcome \in TavilyFailureKinds

C6_Credentials ==
    /\ []C6_Call
    /\ [][pc = "request" => pc' \in {"request", "filter"}]_vars

C6_Witness ==
    /\ pc = "filter" /\ Len(requests) = 2
    /\ requests[1].outcome = "timeout" /\ requests[2].outcome = "results"
    /\ search_result # <<>>

ModelIndex(m) == CHOOSE n \in 1..Len(MODELS) : MODELS[n] = m

\* C7: the backends are called in the order of MODELS; a backend is called
\* only after the call to every earlier backend has failed, and once a backend
\* has returned a response no later backend is called.
C7_BackendOrder ==
    \A k \in 1..Len(calls) :
        /\ \A n \in 1..(ModelIndex(calls[k].model) - 1) :
              \E j \in 1..(k - 1) :
                  calls[j].model = MODELS[n] /\ calls[j].attempt = "first" /\ calls[j].raised
        /\ \A j \in 1..(k - 1) :
              /\ ModelIndex(calls[j].model) <= ModelIndex(calls[k].model)
              /\ (calls[j].attempt = "first" /\ ~calls[j].raised) =>
                    calls[k].model = calls[j].model

C7_Witness ==
    /\ Len(calls) = 2
    /\ calls[1].model = "gpt-oss-120b" /\ calls[1].raised
    /\ calls[2].model = "llama3.1-8b" /\ ~calls[2].raised /\ calls[2].text.wc >= 80
    /\ pc = "check_text"

\* C8 (as claimed): the fatal "all models failed" error is raised only after
\* every backend of MODELS has been attempted.
C8_FatalOnlyAfterAllBackends ==
    fatal = "All Cerebras models failed for article generation" =>
        \A n \in 1..Len(MODELS) : \E k \in 1..Len(calls) : calls[k].model = MODELS[n]

\* C9 (as claimed): malformed structured output (not JSON, or no articleText
\* key) is a failure of the backend: the raw response is never taken as the
\* article text.
C9_MalformedIsFailure ==
    /\ \A k \in 1..Len(calls) : calls[k].text.src # "raw"
    /\ article_text.src # "raw"

\* C10: a first response under the floor gets exactly one corrective retry, to
\* the same backend; the retry's text replaces the first text if and only if
\* the retry returned and its word count is strictly greater; otherwise the
\* first text is kept; there is no second retry and no later backend is tried.
LoopDone == calls # <<>> /\ pc \notin {"generate", "retry"}

C10_Retry ==
    \A k \in 1..Len(calls) :
        (calls[k].attempt = "first" /\ ~calls[k].raised) =>
            IF calls[k].text.wc < RETRY_BELOW_WORDS
            THEN /\ pc = "retry" => Len(calls) = k
                 /\ LoopDone =>
                      /\ Len(calls) = k + 1
                      /\ calls[k + 1].attempt = "retry"
                      /\ calls[k + 1].model = calls[k].model
                      /\ article_text =
                            IF ~calls[k + 1].raised /\ calls[k + 1].text.wc > calls[k].text.wc
                            THEN calls[k + 1].text
                            ELSE calls[k].text
            ELSE /\ pc # "retry"
                 /\ Len(calls) = k
                 /\ article_text = calls[k].text

C10_Witness ==
    /\ LoopDone /\ Len(calls) = 2
    /\ calls[2].attempt = "retry" /\ ~calls[2].raised
    /\ calls[2].text.wc = calls[1].text.wc /\ calls[1].text.wc > 0
    /\ calls[2].text # calls[1].text
    /\ article_text = calls[1].text

\* C11 (as claimed): the corrective retry is issued exactly when the first
\* response has fewer words than the minimum of the band the prompt imposes
\* (100 words).
C11_RetryBelowPromptMinimum ==
    \A k \in 1..Len(calls) :
        (calls[k].attempt = "first" /\ ~calls[k].raised) =>
            ((calls[k].text.wc < PROMPT_MIN_WORDS) <=>
                \/ (pc = "retry" /\ Len(calls) = k)
                \/ (Len(calls) > k /\ calls[k + 1].attempt = "retry"))

\* C12 (as claimed): no stored article body has more words than the upper
\* word-count ceiling.
C12_BodyBounded ==
    \A a \in news : a.summary.wc <= WORD_CEILING

ProviderIndex(name) == CHOOSE p \in 1..Len(PROVIDERS) : PROVIDERS[p] = name
ImagePcs == {"img_g4f", "img_pollinations", "img_upload", "img_placeholder"}
ImageStepDone == image_url # ""

C14_CascadeNeverInterrupted ==
    (pc = "img_placeholder" /\ uploads = <<>> /\ g4f_client # "module_missing") =>
        \E k \in 1..Len(img_attempts) : img_attempts[k].provider = "pollinations"

\* C15: an attempt succeeds only with a body strictly longer than the
\* threshold of its provider (1000 bytes for g4f, 5000 for Pollinations, 500
\* for the placeholder); a body at or below it fails the attempt, so the bytes
\* the cascade returns and the bytes uploaded are above the threshold.
C15_PlausibleBytes ==
    /\ \A k \in 1..Len(img_attempts) :
          LET e == img_attempts[k]
              floor == IF e.provider = "pollinations" THEN 5000 ELSE 1000
          IN  /\ e.bytes > 0 => e.bytes > floor
              /\ e.received <= floor => e.bytes = 0
              /\ e.received > floor => e.bytes > floor
    /\ \A k \in 1..Len(uploads) :
          /\ uploads[k].kind = "placeholder" => uploads[k].bytes > 500
          /\ uploads[k].kind = "generated" =>
                /\ uploads[k].bytes = img_bytes
                /\ uploads[k].bytes >
                      (IF img_attempts[Len(img_attempts)].provider = "pollinations"
                       THEN 5000 ELSE 1000)

C15_Witness ==
    /\ Len(img_attempts) = 8 /\ img_attempts[1].received = 1000
    /\ img_attempts[8].received = 5000 /\ img_bytes = 0
    /\ Len(uploads) = 1 /\ uploads[1].kind = "placeholder" /\ uploads[1].bytes = 501

\* C16 (as claimed): when every provider has failed every attempt, the image
\* step still obtains a non-empty placeholder image and its upload to the
\* object store succeeds.
C16_PlaceholderAlwaysUploaded ==
    (ImageStepDone /\ Len(img_attempts) = 8 /\ img_bytes = 0) =>
        /\ \E k \in 1..Len(uploads) :
              /\ uploads[k].kind = "placeholder" /\ uploads[k].bytes > 0
              /\ uploads[k].outcome = "url"
        /\ image_url = "cloudinary:placeholder"

\* C17: when the upload of the generated bytes raises or returns no URL, the
\* placeholder path follows under the same article key; the image step never
\* raises and never ends with an empty reference.
C17_Step ==
    /\ pc \in ImagePcs => pc' \in ImagePcs \cup {"save"}
    /\ pc = "img_upload" =>
          LET u == uploads'[Len(uploads')]
          IN  /\ u.kind = "generated" /\ u.public_id = article_id
              /\ IF u.outcome = "url"
                 THEN pc' = "save" /\ image_url' = "cloudinary:generated"
                 ELSE pc' = "img_placeholder"
    /\ (pc \in ImagePcs /\ pc' = "save") => image_url' # ""

C17_UploadFallback ==
    /\ [][C17_Step]_vars
    /\ [](/\ \A k \in 1..Len(uploads) : uploads[k].public_id = article_id
          /\ pc \in {"save", "save_history", "log_health"} => image_url # ""
          /\ \A a \in news : a.image_url # ""
          /\ (ImageStepDone /\ uploads # <<>> /\ uploads[1].kind = "generated"
                /\ uploads[1].outcome # "url") =>
                image_url \in {"cloudinary:placeholder", PLACEHOLDER_IMAGE_URL})

C17_Witness ==
    /\ Len(uploads) = 2 /\ uploads[1].kind = "generated" /\ uploads[1].outcome = "raise"
    /\ uploads[2].kind = "placeholder" /\ uploads[2].outcome = "url"
    /\ uploads[2].public_id = uploads[1].public_id
    /\ image_url = "cloudinary:placeholder" /\ pc = "save"


\* The eviction part of cleanup() is over and none of its calls failed.
EvictionOver ==
    /\ cl_pc \in {"purge_query", "purge", "done"}
    /\ all_news # <<>>
    /\ "cleanup_failed" \notin Range(cl_log)
Evicted == Range(all_news) \ news
CleanupArchive == SelectSeq(history, LAMBDA e : e.archivedFrom = "cleanup")

\* C18: with total records and total > min_keep, the cleanup job deletes
\* exactly total - min_keep records, every one of them older than every
\* record that stays; with total <= min_keep it deletes and archives nothing.
C18_EvictsOldestExcess ==
    EvictionOver
    => LET total == Len(all_news)
       IN  IF total <= MIN_ARTICLES
           THEN /\ Evicted = {} /\ CleanupArchive = <<>>
                /\ \A k \in 1..Len(batches) : batches[k].phase # "evict"
           ELSE /\ Cardinality(Evicted) = total - MIN_ARTICLES
                /\ Cardinality(news) = MIN_ARTICLES
                /\ \A d \in Evicted : \A a \in news : Before(d, a)

C18_Witness ==
    /\ EvictionOver
    /\ Len(all_news) = MIN_ARTICLES + BATCH_LIMIT + 1
    /\ Cardinality(news) = MIN_ARTICLES
    /\ StoredRecord(BATCH_LIMIT + 1) \notin news
    /\ StoredRecord(BATCH_LIMIT + 2) \in news

\* C19 (as stated): every record the cleanup job has deleted has an entry
\* in the publication history, marked as archived by cleanup, that holds the
\* record's title and the URLs the article was built from.
BuiltFrom(record) == <<NormalizeUrl(UrlPlain)>>
C19_ArchivedBeforeDelete ==
    \A d \in Evicted :
        \E k \in 1..Len(history) :
            /\ history[k].archivedFrom = "cleanup"
            /\ history[k].title = d.title
            /\ history[k].sourceUrls = BuiltFrom(d)

\* the documents of the committed batches of one loop, in commit order
RECURSIVE Committed(_, _)
Committed(phase, k) ==
    IF k = 0 THEN <<>>
    ELSE Committed(phase, k - 1)
         \o (IF batches[k].phase = phase THEN batches[k].docs ELSE <<>>)

\* C20: no committed batch holds more than 400 deletes or none at all, and
\* the committed batches together with the open one hold the documents
\* handled so far, each once; when a loop has ended without a failure all
\* the documents it selected are in committed batches.
C20_BatchesOfAtMost400 ==
    /\ \A k \in 1..Len(batches) :
          Len(batches[k].docs) >= 1 /\ Len(batches[k].docs) <= BATCH_LIMIT
    /\ Len(batch) < BATCH_LIMIT
    /\ cl_pc = "evict"
          => Committed("evict", Len(batches)) \o batch = SubSeq(to_delete, 1, count)
    /\ cl_pc = "purge"
          => Committed("purge", Len(batches)) \o batch = SubSeq(old_history, 1, count)
    /\ EvictionOver => Committed("evict", Len(batches)) = to_delete
    /\ (cl_pc = "done" /\ "history_failed" \notin Range(cl_log))
          => Committed("purge", Len(batches)) = old_history

C20_Witness ==
    /\ cl_pc = "done"
    /\ Len(batches) = 2
    /\ \A k \in 1..2 : batches[k].phase = "evict" /\ Len(batches[k].docs) = BATCH_LIMIT
    /\ Len(to_delete) = 2 * BATCH_LIMIT
    /\ Cardinality(news) = MIN_ARTICLES


\* the entries of h that are not older than the TTL, in order
NotExpired(h) == SelectSeq(h, LAMBDA e : ~(e.createdAt < now - HISTORY_TTL_DAYS))

\* a step of the job keeps the entries that are not expired as they are;
\* the eviction may add entries behind them
C21_Step ==
    LET kept  == NotExpired(history)
        after == NotExpired(history')
    IN  IF cl_pc \in {"purge_query", "purge"}
        THEN after = kept
        ELSE Len(kept) <= Len(after) /\ SubSeq(after, 1, Len(kept)) = kept

\* C21: the purge removes no entry whose createdAt is not earlier than now
\* minus HISTORY_TTL_DAYS and changes none of them, whatever the news
\* collection holds; when the purge has ended without a failure no entry
\* with an earlier createdAt is left.
C21_PurgeExactlyExpired ==
    /\ [][C21_Step]_vars
    /\ [](cl_pc = "done" /\ "history_failed" \notin Range(cl_log)
            => NotExpired(history) = history)

C21_Witness ==
    /\ cl_pc = "done"
    /\ Len(batches) >= 1
    /\ batches[Len(batches)] = [phase |-> "purge", docs |-> <<1, 3>>]
    /\ Len(history) >= 2
    /\ SubSeq(history, 1, 2) = <<StoredEntry(2, CleanupDay - 1), StoredEntry(4, CleanupDay - 9)>>
    /\ Cardinality(news) = MIN_ARTICLES


\* the run wrote its Article Record and its history insert failed
HistoryWriteFailed ==
    news_writes = 1 /\ history_writes = 0 /\ pc \in {"log_health", "exited"}

\* C22: when the history insert fails after the Article Record was written,
\* the run does not abort: no exception is pending, the record is in the
\* news collection, and the run ends with the success health record
\* written and exit status 0.
C22_HistoryFailureSwallowed ==
    HistoryWriteFailed
    => /\ fatal = ""
       /\ \E a \in news : a.id = article_id /\ a.title = title
       /\ pc = "exited" => exit_code = 0 /\ health = "success"

C22_Witness ==
    /\ HistoryWriteFailed
    /\ pc = "exited"
    /\ runs = 2
    /\ history = <<>>
    /\ Cardinality(news) = 1
    /\ health = "success"


\* the only step a run takes with an exception pending is the except branch
\* of the entry point: the failure record is written or its write fails, and
\* the process exits with status 1
C23_Step ==
    pc = "fatal" =>
        /\ pc' = "exited" /\ exit_code' = 1
        /\ health' \in {"failed", health}
        /\ news' = news /\ history' = history

\* C23: an exception raised in generate_news is pending at the entry point
\* until the process exits, the exit status of such a run is 1 whether or
\* not the failure health record could be written, and the health record
\* says success only when the run has written its Article Record.
C23_FatalExitsNonZero ==
    /\ [][C23_Step]_vars
    /\ [](fatal # "" => pc \in {"fatal", "exited"})
    /\ [](pc = "exited" /\ fatal # "" => exit_code = 1 /\ health \in {"failed", "none"})
    /\ [](pc = "exited" /\ exit_code = 0 => fatal = "" /\ news_writes = 1)
    /\ [](health = "success" => news_writes = 1 /\ pc = "exited" /\ exit_code = 0)

C23_Witness ==
    /\ pc = "exited" /\ exit_code = 1
    /\ fatal = "All Cerebras models failed for article generation"
    /\ health = "none"
    /\ news = {}


\* u and v are URL strings that differ at most in the scheme, in a trailing
\* slash of the path and in tracking parameters of the query
SameButIgnoredParts(u, v) ==
    /\ ~NormalizeRaises(u) /\ ~NormalizeRaises(v)
    /\ ~UrlParseRaises(u) /\ ~UrlParseRaises(v)
    /\ u.host = v.host /\ u.base = v.base /\ u.semi = v.semi

\* C25 (as stated): any two URLs of a search result that differ only by
\* tracking parameters, scheme or a trailing slash have the same
\* normalize_url value.
C25_SameCanonicalString ==
    \A j, k \in 1..Len(search_result) :
        SameButIgnoredParts(search_result[j].url, search_result[k].url)
        => NormalizeUrl(search_result[j].url) = NormalizeUrl(search_result[k].url)

\* C26 (as stated): normalize_url raises on none of the values the run
\* passes to it, so no run ends with its exception.
C26_NormalizeNeverThrows ==
    /\ \A k \in 1..Len(search_result) : ~NormalizeRaises(search_result[k].url)
    /\ fatal # NORMALIZE_ERROR


\* records inserted by the feed pipeline / by the search pipeline in this run
InsertedByFeed == {a \in news : a.id > FreshId(0)}
InsertedByRun  == {a \in news : a.id = article_id}

\* C24: a run of generate_news inserts at most one record, and a run of the
\* feed pipeline builds and inserts at most one item, however many fresh
\* entries the feeds carry.
C24_AtMostOneArticle ==
    /\ news_writes <= 1
    /\ Cardinality(InsertedByRun) <= 1
    /\ Len(new_items) <= 1
    /\ saved <= 1
    /\ Cardinality(InsertedByFeed) <= 1

C24_Witness ==
    /\ f_pc = "done" /\ pc = "exited"
    /\ Len(ai_entries) = 3 /\ Len(tech_entries) = 3
    /\ ai_entries[1].title = T_SEVEN
    /\ existing_titles = <<>>
    /\ saved = 1 /\ news_writes = 1
    /\ Cardinality(news) = 2

\* the case-insensitive word sets of a and b are not empty and share at
\* least 70% of the words of the smaller one
Overlap70(a, b) ==
    LET A == WordSet(a)
        B == WordSet(b)
    IN  /\ A # {} /\ B # {}
        /\ \/ Cardinality(A) <= Cardinality(B)
              /\ 10 * Cardinality(A \cap B) >= 7 * Cardinality(A)
           \/ Cardinality(B) <= Cardinality(A)
              /\ 10 * Cardinality(A \cap B) >= 7 * Cardinality(B)

\* C27: is_duplicate_title is true for a candidate exactly when some
\* existing title overlaps it by 70% or more; no item the run built
\* overlaps a title it had loaded by 70% or more.
C27_DuplicateIffOverlap ==
    /\ \A e \in Range(ai_entries) \cup Range(tech_entries) :
          IsDuplicateTitle(CleanTitle(e.title), existing_titles)
          <=> \E k \in 1..Len(existing_titles) :
                 Overlap70(CleanTitle(e.title), existing_titles[k])
    /\ \A n \in 1..Len(new_items) : \A k \in 1..Len(existing_titles) :
          ~Overlap70(new_items[n].title, existing_titles[k])

C27_Witness ==
    /\ f_pc = "done"
    /\ existing_titles = <<T_TEN>>
    /\ ai_entries[1].title = T_SEVEN
    /\ Len(new_items) = 1
    /\ new_items[1].title = T_SIX
    /\ saved = 1


(***************************************************************************)
(* The category classifier.                                                *)
(***************************************************************************)
\* step 8 of this run called detect_category
Classified == category_args # NoArgs

\* number of places of q where kw occurs
Occurrences(kw, q) ==
    Cardinality({k \in 1..(Len(q) - Len(kw) + 1) : SubSeq(q, k, k + Len(kw) - 1) = kw})

RECURSIVE OccurrencesOfAll(_, _, _)
OccurrencesOfAll(keywords, k, q) ==
    IF k > Len(keywords) THEN 0
    ELSE Occurrences(keywords[k], q) + OccurrencesOfAll(keywords, k + 1, q)

\* the keyword occurrences of rule n in query + title + title + body prefix:
\* an occurrence in the title is in that text twice
OccurrenceScore(n, args) ==
    OccurrencesOfAll(CATEGORY_RULES[n].keywords, 1,
                     ScoredText(args.query, args.title, args.content))

\* c is the choice among the rules by the scores score[n]: the highest score
\* above zero, the earliest rule among equals, the default with no score
ChosenBy(score, c) ==
    IF \A n \in DOMAIN score : score[n] = 0
    THEN c = DEFAULT_CATEGORY
    ELSE \E n \in DOMAIN score :
           /\ c = CATEGORY_RULES[n].cat
           /\ score[n] > 0
           /\ \A m \in DOMAIN score : score[m] <= score[n]
           /\ \A m \in 1..(n - 1) : score[m] < score[n]

\* C28: detect_category returns the category whose keywords occur most often
\* in query + title (counted twice) + the first 500 characters of the body,
\* the earliest declared category among equals, and ai-tech when no keyword
\* occurs.
C28_HighestScoreWins ==
    Classified =>
        ChosenBy([n \in 1..Len(CATEGORY_RULES) |-> OccurrenceScore(n, category_args)] @@ <<>>,
                 category)

\* the generator emitted a category of the allowed values
ValidEmitted(c) == c # Absent /\ StripLower(c) \in VALID_CATEGORIES

\* the completion of the first attempt that ended the backend loop
AnsweringCall == CHOOSE k \in 1..Len(calls) : calls[k].attempt = "first" /\ ~calls[k].raised

\* the corrective retry followed it and its text was accepted
RetryWasAccepted ==
    /\ Len(calls) > AnsweringCall
    /\ ~calls[AnsweringCall + 1].raised
    /\ calls[AnsweringCall + 1].text.wc > calls[AnsweringCall].text.wc

\* the category of the generator: <<c>>, or <<>> when it emitted no valid one
GeneratorCategory ==
    IF RetryWasAccepted /\ ValidEmitted(calls[AnsweringCall + 1].emitted)
    THEN <<StripLower(calls[AnsweringCall + 1].emitted)>>
    ELSE IF ValidEmitted(calls[AnsweringCall].emitted)
    THEN <<StripLower(calls[AnsweringCall].emitted)>>
    ELSE <<>>

\* C29: the record a run writes carries the generator's category when the
\* generator emitted a valid one (the accepted retry's if it supplied one, else
\* the first attempt's); only otherwise it carries what detect_category
\* returned for the query, the title and the article of the run.
C29_GeneratorCategoryOverrides ==
    \A a \in news :
        IF GeneratorCategory # <<>>
        THEN a.category = GeneratorCategory[1] /\ ~Classified
        ELSE /\ Classified
             /\ a.category = DetectCategory(category_args.query, category_args.title,
                                            category_args.content)

\* a record carries the category of an accepted retry that replaced the
\* first attempt's valid category
C29_Witness ==
    /\ news # {} /\ Len(calls) = 2 /\ RetryWasAccepted
    /\ calls[1].emitted = "world" /\ calls[2].emitted = "disability"
    /\ \E a \in news : a.category = "disability"

\* C30: every record written carries a category of the one fixed set against
\* which the generator's category is validated, whether the generator or the
\* keyword classifier chose it.
C30_CategoryInFixedSet == \A a \in news : a.category \in VALID_CATEGORIES

(***************************************************************************)
(* Image reference and title of the records.                               *)
(***************************************************************************)
\* C31: every record in the news collection, whichever pipeline wrote it,
\* has an image reference that is neither empty nor null.
C31_ImageReferenceNonEmpty == \A a \in news : a.image_url \notin {"", NoImage}

\* step 7 of this run is over
TitleStepDone == title_completion.llm # "none"

\* C32: every record generate_news writes has a non-empty title: the LLM
\* headline only when the call answered and at least 4 words remain, else the
\* first sentence when its length is strictly between 15 and 120, else the
\* fixed default headline, also when the headline call failed.
C32_TitleNeverEmpty ==
    /\ TitleStepDone =>
          title = IF title_completion.llm = "ok" /\ title_completion.words >= 4
                  THEN "llm headline"
                  ELSE IF title_completion.first_len > 15 /\ title_completion.first_len < 120
                  THEN "first sentence"
                  ELSE DEFAULT_TITLE
    /\ \A a \in news : a.title = title /\ a.title \notin {"", Unbound}

\* a record carries the default headline after the headline call failed and
\* the first sentence had 120 characters
C32_Witness ==
    /\ title_completion = [llm |-> "error", words |-> 0, first_len |-> 120]
    /\ \E a \in news : a.title = DEFAULT_TITLE

\* step 6 of this run is over
ImagePromptStepDone == img_completion # "none"

\* C37: when the image-prompt request is answered, the description returned
\* is the image prompt; the fixed fallback prompt is used only when that
\* request fails.
C37_PromptFromDescription ==
    ImagePromptStepDone =>
        image_prompt = IF img_completion = "ok" THEN "llm description"
                       ELSE FALLBACK_IMAGE_PROMPT

(***************************************************************************)
(* Overlapping runs.                                                       *)
(***************************************************************************)
\* the second run has filtered its search results
OtherFiltered == other.pc \in {"save", "save_history", "exited"}

\* the results of the second run whose URL was not in the history it read
FreshForOther ==
    LET snapshot == LoadHistoryUrls(SubSeq(history, 1, other.read_len))
    IN  SelectSeq(other.results, LAMBDA r : NormalizeUrl(r.url) \notin snapshot)

\* the first run has passed its search
SearchDone ==
    pc \in {"generate", "retry", "check_text", "image_prompt", "title", "category", "image",
            "save", "save_history", "log_health", "exited"}

\* C33: the dedup filter of a run excludes exactly the URLs that were in the
\* history when that run read it: what another run saves to the history
\* afterwards does not reach it.
C33_DedupAgainstOwnRead ==
    /\ OtherFiltered =>
          other.source_urls = IF PrimaryWeak(FreshForOther) THEN <<>>
                              ELSE SourceUrls(FreshForOther)
    /\ SearchDone => \A u \in Range(source_urls) : NormalizeUrl(u) \notin known_urls

\* both runs loaded the history before either saved its entry, and both
\* published a record built from the same source URL
C33_Witness ==
    /\ pc = "exited" /\ other.pc = "exited"
    /\ other.read_len = 0
    /\ Cardinality(news) = 2
    /\ Len(history) = 2
    /\ \E u \in Range(source_urls) : u \in Range(other.source_urls)
    /\ \E u \in Range(history[1].sourceUrls) : u \in Range(history[2].sourceUrls)

(***************************************************************************)
(* Eviction beside other writers.                                          *)
(***************************************************************************)
\* the n newest records of S
NewestOf(S, n) == {a \in S : Cardinality({b \in S : Before(a, b)}) < n}

\* A step that removes records is a commit of the cleanup job, which removes
\* only records of its snapshot outside the newest MIN_ARTICLES of it, or the
\* eviction of the second job, whose snapshot is the collection it found.
C34_Step ==
    LET removed == news \ news'
    IN  removed # {} =>
          IF batches' # batches
          THEN /\ removed \subseteq Range(all_news)
               /\ removed \cap NewestOf(Range(all_news), MIN_ARTICLES) = {}
          ELSE removed \cap NewestOf(news, MIN_ARTICLES) = {}

\* C34: whatever inserts and whatever second eviction fall between the query
\* of an eviction and its commits, it deletes only records of its own
\* snapshot and none of the MIN_ARTICLES newest of it; the collection never
\* falls below MIN_ARTICLES, and at the end it exceeds it by no more than the
\* record inserted meanwhile.
C34_EvictionToleratesStaleness ==
    /\ [][C34_Step]_vars
    /\ [](Cardinality(news) >= MIN_ARTICLES)
    /\ [](cl_pc = "done" /\ "cleanup_failed" \notin Range(cl_log)
            => Cardinality(news) <= MIN_ARTICLES + 1)

\* the job committed its deletes after a run had inserted a record and the
\* second job had evicted: the collection is over the minimum by the insert
C34_Witness ==
    /\ cl_pc = "done" /\ batches # <<>>
    /\ Len(all_news) = MIN_ARTICLES + 3
    /\ \E a \in news : a.id = 0
    /\ \E k \in 1..Len(history) : history[k].archivedFrom = "cleanup"
    /\ Cardinality(news) = MIN_ARTICLES + 1

(***************************************************************************)
(* The minimum of the news collection.                                     *)
(***************************************************************************)
\* C35: whichever operation deletes, a record is deleted only while the
\* collection holds more than MIN_ARTICLES records, and a collection that
\* holds MIN_ARTICLES records or more does not fall below MIN_ARTICLES.
C35_MinimumKept ==
    [][/\ (news \ news' # {} => Cardinality(news) > MIN_ARTICLES)
       /\ (Cardinality(news) >= MIN_ARTICLES => Cardinality(news') >= MIN_ARTICLES)]_vars

(***************************************************************************)
(* Which feed entry is published.                                          *)
(***************************************************************************)
\* the records process_news_entries compares with: the collection as read,
\* or nothing when the read failed (load_existing_news then returns [])
LoadedRecords == IF existing_titles' = <<>> THEN {} ELSE news

\* entry k of the list is neither linked from a loaded record nor a fuzzy
\* duplicate of a loaded title
Qualifies(entries, k) ==
    /\ \A a \in LoadedRecords :
          "source_link" \in DOMAIN a => a.source_link # entries[k].link
    /\ \A a \in LoadedRecords :
          ~AtLeastThreshold(TitleSimilarity(CleanTitle(entries[k].title), a.title))

FirstQualifying(entries) ==
    LET ok == {k \in 1..Len(entries) : Qualifies(entries, k)}
    IN  IF ok = {} THEN 0 ELSE CHOOSE k \in ok : \A j \in ok : k <= j

IsItemOf(item, entry) ==
    item.source_link = entry.link /\ item.title = CleanTitle(entry.title)

C36_Step ==
    (f_pc = "process" /\ f_pc' # "process") =>
        LET a == FirstQualifying(ai_entries)
            t == FirstQualifying(tech_entries)
        IN  IF a > 0
            THEN /\ Len(new_items') = 1 /\ IsItemOf(new_items'[1], ai_entries[a])
                 /\ f_pc' = "save"
            ELSE IF t > 0
            THEN /\ Len(new_items') = 1 /\ IsItemOf(new_items'[1], tech_entries[t])
                 /\ f_pc' = "save"
            ELSE new_items' = <<>> /\ f_pc' = "done"

\* the records the feed pipeline wrote
FeedWritten == {a \in news : a.id >= FreshId(1)}

\* C36: the item a run of the feed pipeline takes is the first AI entry, in
\* feed order, that is neither linked from a record the run loaded nor a
\* fuzzy duplicate of a loaded title; without such an AI entry it is the first
\* such tech entry; without either nothing is taken.  Only the item taken is
\* ever saved.
C36_FirstQualifyingEntry ==
    /\ [][C36_Step]_vars
    /\ [](FeedWritten \subseteq Range(new_items))

\* a tech entry was saved: no AI entry qualified, and neither did the first
\* tech entry
C36_Witness ==
    /\ f_pc = "done" /\ saved = 1 /\ ai_entries # <<>>
    /\ \E a \in FeedWritten : a.source_link = "L7" /\ a.category = "tech"

(***************************************************************************)
(* Normalising twice.                                                      *)
(***************************************************************************)
\* C38: normalize_url applied to its own result returns it unchanged, for
\* every URL of a search result (those urlparse rejects included), so the
\* stored form of a URL, normalized again when the history is loaded, equals
\* its freshly normalized form.
C38_NormalizeIdempotent ==
    \A k \in 1..Len(search_result) :
        ~NormalizeRaises(search_result[k].url) =>
            NormalizeUrl(NormalizeUrl(search_result[k].url))
                = NormalizeUrl(search_result[k].url)

(***************************************************************************)
(* Eviction, then purge, in one run of the cleanup job.                    *)
(***************************************************************************)
\* the entries the eviction of this run archived (the stored histories hold
\* none that is marked "cleanup")
ArchivedByRun(h) == SelectSeq(h, LAMBDA e : e.archivedFrom = "cleanup")

InPurge == cl_pc \in {"purge_query", "purge", "done"}

\* the purge part neither touches the news collection nor an entry the
\* eviction archived, and there is no way back from it to the eviction
C39_Step ==
    InPurge => /\ ArchivedByRun(history') = ArchivedByRun(history)
               /\ news' = news
               /\ cl_pc' \in {"purge_query", "purge", "done"}

\* C39: in one run of the cleanup job every eviction batch is committed
\* before the purge starts; the entries the eviction archived carry the time
\* of the run and the purge of the same run deletes none of them; and after a
\* failure of the eviction the job goes on to the purge, which, unless it
\* fails itself, leaves no expired entry.
C39_EvictionBeforePurge ==
    /\ [][C39_Step]_vars
    /\ [](\A j, k \in 1..Len(batches) :
             (batches[j].phase = "purge" /\ batches[k].phase = "evict") => k < j)
    /\ [](\A k \in 1..Len(history) :
             history[k].archivedFrom = "cleanup" => history[k].createdAt = now)
    /\ []("cleanup_failed" \in Range(cl_log) => InPurge)
    /\ [](cl_pc = "done" /\ "history_failed" \notin Range(cl_log)
            => NotExpired(history) = history)

\* the eviction archived records, then failed at a commit; the purge ran
\* all the same, committed a batch and left the archived entries
C39_Witness ==
    /\ cl_pc = "done"
    /\ "cleanup_failed" \in Range(cl_log)
    /\ ArchivedByRun(history) # <<>>
    /\ batches # <<>> /\ batches[Len(batches)].phase = "purge"

(***************************************************************************)
(* The run is bounded.                                                     *)
(***************************************************************************)
\* the placeholder path is entered once, and a request is made only inside
\* the search it belongs to
C40_Step ==
    /\ pc = "img_placeholder" => pc' # "img_placeholder"
    /\ pc = "exited" => pc' = "exited"
    /\ Len(requests') > Len(requests) =>
          (pc = "request" /\ Len(requests') = Len(requests) + 1 /\ searches' = searches)

\* C40: a run ends, with success or with a fatal failure, when every
\* external call returns: it makes at most three searches of at most two
\* requests each, at most three calls to the text backends, at most eight
\* image attempts (three, three and two), at most one placeholder fetch and at
\* most two uploads.
C40_RunTerminates ==
    /\ <>(pc = "exited")
    /\ [][C40_Step]_vars
    /\ [](Len(searches) <= 3 /\ Len(requests) <= 2)
    /\ [](Len(calls) <= 3)
    /\ [](Len(img_attempts) <= 2 * G4F_ATTEMPTS + POLLINATIONS_ATTEMPTS)
    /\ [](/\ Len(uploads) <= 2
          /\ Cardinality({k \in 1..Len(uploads) : uploads[k].kind = "placeholder"}) <= 1)

\* the longest run: six failed requests are not followed by a generation, so
\* the witness is the run with the most image work: eight failed attempts,
\* then the placeholder, after three calls to the text backends
C40_Witness ==
    /\ pc = "exited"
    /\ Len(calls) = 3
    /\ Len(img_attempts) = 8
    /\ \E k \in 1..Len(uploads) : uploads[k].kind = "placeholder"
====
